---- MODULE Spec2Model ----
(***************************************************************************)
(* The ledger core of nnex-bank: class NNEXCore of src/lib/nnexCore.ts and *)
(* the nnexApi facade in front of it.  The repository holds three          *)
(* revisions of that file with a ledger (src/unnamed/part_003, part_004    *)
(* and part_005); `revision` says which one is loaded.                     *)
(*                                                                         *)
(* Numbers.  Identifiers (uid()) are drawn from a counter, so that two     *)
(* calls never return the same id; the reserved owner "SYSTEM" is the id   *)
(* 0, which uid() never returns.  An amount handed to postTopup or         *)
(* transfer is a JavaScript number in major units; it is carried here in   *)
(* thousandths of a major unit (Major(100) is 100.00, 4 is 0.004), so that *)
(* toMinor has something to round.  Fields the ledger never reads (name,   *)
(* memo, counterparty, status, an entry's createdAt) are left out of the      *)
(* records.  A transaction keeps createdAt, the reading of the clock when  *)
(* it was posted: listTransactions sorts by it.                            *)
(***************************************************************************)
EXTENDS Integers, Sequences, FiniteSets, TLC

VARIABLES
    revision,       \* which revision of src/lib/nnexCore.ts is loaded
    users,          \* NNEXCore.users, in insertion order
    accounts,       \* NNEXCore.accounts, in insertion order
    sessions,       \* NNEXCore.sessions, in insertion order
    transactions,   \* NNEXCore.transactions, in iteration order
    entries,        \* NNEXCore.entries
    nextId,         \* the next value uid() returns
    last,           \* the most recent call on the core: arguments and outcome
    inflight,       \* promises returned by the async facade, not yet awaited
    issued,         \* what login has returned so far: {token, userId} pairs
    clock,          \* what now() returns, in ticks of the clock
    ls,             \* _store.ts: the item of localStorage under LS_KEY
    app             \* App.tsx: the component's state, its last render, and
                    \* the updates React has queued since

coreVars == <<users, accounts, sessions, transactions, entries, nextId>>
vars == <<revision, users, accounts, sessions, transactions, entries, nextId,
          last, inflight, issued, clock, ls, app>>
storeVars == <<ls, app>>

----------------------------------------------------------------------------
(* Bounds of the exploration and the inputs the callers draw from.         *)

MaxTx == 3
MaxInflight == 2

Revisions == {"part_003", "part_004", "part_005"}

SYSTEM == 0
Undefined == 0 - 1
NoSuchId == 0 - 2

Major(n) == n * 1000

\* type Currency
Currencies == {"USD", "EUR", "GBP", "AED"}

FOUNDER_EMAIL == "founder@nnex.bank"
EmailInputs == {FOUNDER_EMAIL, "Founder@NNEX.bank", "guest@nnex.bank"}
AmountInputs == {Major(100), Major(60), 4, Major(0 - 1)}

\* String.prototype.toLowerCase, on the emails the callers present.
toLowerCase(email) ==
    IF email = "Founder@NNEX.bank" THEN "founder@nnex.bank" ELSE email

\* _store.ts: user: null, and localStorage without the item.  The amounts
\* of the store are kept in hundredths (5021.55 is 502155).
NoUser == [id |-> Undefined, email |-> "", kyc |-> "none"]
\* The component before its first render.
Unmounted == [state |-> <<>>, rendered |-> <<>>, queue |-> <<>>]

NoItem ==
    [stored |-> FALSE, user |-> NoUser, accounts |-> <<>>, txs |-> <<>>,
     beneficiaries |-> <<>>, templates |-> <<>>]

----------------------------------------------------------------------------
(* The core as one value, so that a method can call another.               *)

State ==
    [users |-> users, accounts |-> accounts, sessions |-> sessions,
     transactions |-> transactions, entries |-> entries, nextId |-> nextId,
     now |-> clock]

Install(s) ==
    /\ users' = s.users
    /\ accounts' = s.accounts
    /\ sessions' = s.sessions
    /\ transactions' = s.transactions
    /\ entries' = s.entries
    /\ nextId' = s.nextId
    /\ clock' = s.now

EmptyCore ==
    [users |-> <<>>, accounts |-> <<>>, sessions |-> <<>>,
     transactions |-> <<>>, entries |-> <<>>, nextId |-> 1, now |-> 0]

Ok == "ok"
Return(s, value) == [s |-> s, outcome |-> Ok, value |-> value]
Throw(s, message) == [s |-> s, outcome |-> message, value |-> Undefined]

\* Array.prototype.find / Map.prototype.get: the position of the first
\* element satisfying P, 0 when there is none.
FindIndex(seq, P(_)) ==
    IF \E i \in 1..Len(seq) : P(seq[i])
    THEN CHOOSE i \in 1..Len(seq) :
            /\ P(seq[i])
            /\ \A j \in 1..(i - 1) : ~P(seq[j])
    ELSE 0

\* The values of a JavaScript number that are not finite.  NaN is a value
\* apart: no ordering comparison with it is true and every sum with it is
\* NaN.  The infinities lie beyond every amount and every balance.
Infinity == 2000000000
NegInfinity == 0 - Infinity
NaN == NegInfinity - 1

IsFinite(x) == x \notin {NaN, Infinity, NegInfinity}
Less(a, b) == a # NaN /\ b # NaN /\ a < b
LessEq(a, b) == a # NaN /\ b # NaN /\ a <= b
Neg(a) == IF a = NaN THEN NaN ELSE 0 - a
Plus(a, b) ==
    IF NaN \in {a, b} \/ {a, b} = {Infinity, NegInfinity} THEN NaN
    ELSE IF Infinity \in {a, b} THEN Infinity
    ELSE IF NegInfinity \in {a, b} THEN NegInfinity
    ELSE a + b

\* Math.round(amount * 100), on thousandths; NaN and the infinities pass
\* through the product and the rounding.
toMinor(amount) == IF IsFinite(amount) THEN (amount + 5) \div 10 ELSE amount

----------------------------------------------------------------------------
(* Reads and the two private posting helpers.                              *)

\* part_003 getBalanceMinor: the for loop over this.entries.
RECURSIVE getBalanceMinorLoop(_, _, _, _)
getBalanceMinorLoop(es, accountId, i, sum) ==
    IF i > Len(es)
    THEN sum
    ELSE getBalanceMinorLoop(es, accountId, i + 1,
            IF es[i].accountId = accountId THEN Plus(sum, es[i].amountMinor)
                                            ELSE sum)

\* Faulty variant: the loop forgets to compare e.accountId.
RECURSIVE getBalanceMinorUnfiltered(_, _)
getBalanceMinorUnfiltered(s, accountId) ==
    IF s.entries = <<>>
    THEN 0
    ELSE Plus(Head(s.entries).amountMinor,
              getBalanceMinorUnfiltered([s EXCEPT !.entries = Tail(@)], accountId))

getBalanceMinor(s, accountId) == getBalanceMinorLoop(s.entries, accountId, 1, 0)

\* part_004 balanceMinor, part_005 getBalanceMinor: filter, then reduce.
RECURSIVE reduceAmounts(_, _)
reduceAmounts(es, acc) ==
    IF es = <<>> THEN acc ELSE reduceAmounts(Tail(es), Plus(acc, Head(es).amountMinor))

\* Faulty variant: the filter is dropped, every entry is reduced.
balanceMinorUnfiltered(s, accountId) == reduceAmounts(s.entries, 0)

balanceMinor(s, accountId) ==
    reduceAmounts(SelectSeq(s.entries, LAMBDA e : e.accountId = accountId), 0)

\* Faulty variant: a token that names no session falls back on the oldest one.
getUserByTokenOrOldest(s, token) ==
    LET i == FindIndex(s.sessions, LAMBDA x : x.token = token)
        k == IF i = 0 /\ s.sessions # <<>> THEN 1 ELSE i
    IN
    IF k = 0
    THEN Throw(s, "Unauthorized")
    ELSE LET j == FindIndex(s.users, LAMBDA u : u.id = s.sessions[k].userId) IN
         IF j = 0 THEN Throw(s, "Unauthorized") ELSE Return(s, s.users[j])

getUserByToken(s, token) ==
    LET i == FindIndex(s.sessions, LAMBDA x : x.token = token) IN
    IF i = 0
    THEN Throw(s, "Unauthorized")
    ELSE LET j == FindIndex(s.users, LAMBDA u : u.id = s.sessions[i].userId) IN
         IF j = 0 THEN Throw(s, "Unauthorized") ELSE Return(s, s.users[j])

\* Faulty variant: the newest entry is overwritten instead of appended to.
postEntryOverwrite(s, e) ==
    LET entry == [id |-> s.nextId, txId |-> e.txId, accountId |-> e.accountId,
                  amountMinor |-> e.amountMinor]
    IN [s EXCEPT
           !.entries = IF @ = <<>> THEN <<entry>>
                       ELSE SubSeq(@, 1, Len(@) - 1) \o <<entry>>,
           !.nextId = @ + 1]

postEntry(s, e) ==
    [s EXCEPT
        !.entries = Append(@, [id |-> s.nextId, txId |-> e.txId,
                               accountId |-> e.accountId,
                               amountMinor |-> e.amountMinor]),
        !.nextId = @ + 1]

NewTx(s, t) ==
    [id |-> s.nextId, type |-> t.type, createdAt |-> s.now,
     currency |-> t.currency, amountMinor |-> t.amountMinor,
     fromAccountId |-> t.fromAccountId, toAccountId |-> t.toAccountId]

\* part_003, part_005: this.transactions.set(tx.id, tx)
postTx(s, t) ==
    [s |-> [s EXCEPT !.transactions = Append(@, NewTx(s, t)), !.nextId = @ + 1],
     tx |-> NewTx(s, t)]

\* part_004: this.transactions.unshift(tx)
postTx004(s, t) ==
    [s |-> [s EXCEPT !.transactions = <<NewTx(s, t)>> \o @, !.nextId = @ + 1],
     tx |-> NewTx(s, t)]

----------------------------------------------------------------------------
(* part_003: the full ledger, with the clearing account.                   *)

\* Faulty variant: the lookup is skipped, every call creates an account.
getOrCreateClearingAccountAlways(s, currency) ==
    [s |-> [s EXCEPT
                !.accounts = Append(@, [id |-> s.nextId, userId |-> SYSTEM,
                                        currency |-> currency]),
                !.nextId = @ + 1],
     id |-> s.nextId]

getOrCreateClearingAccount(s, currency) ==
    LET i == FindIndex(s.accounts,
                 LAMBDA a : a.userId = SYSTEM /\ a.currency = currency) IN
    IF i # 0
    THEN [s |-> s, id |-> s.accounts[i].id]
    ELSE [s |-> [s EXCEPT
                    !.accounts = Append(@, [id |-> s.nextId, userId |-> SYSTEM,
                                            currency |-> currency]),
                    !.nextId = @ + 1],
          id |-> s.nextId]

\* Faulty variant: the entry is pushed before the owner is checked.
postTopup003EntryFirst(s, userId, toAccountId, amount) ==
    LET i == FindIndex(s.accounts, LAMBDA a : a.id = toAccountId) IN
    IF i = 0 THEN Throw(s, "Account not found")
    ELSE
        LET s1 == postEntry(s, [txId |-> s.nextId + 1, accountId |-> toAccountId,
                                amountMinor |-> toMinor(amount)])
        IN
        IF s.accounts[i].userId # userId THEN Throw(s1, "Forbidden")
        ELSE Return(postTx(s1, [type |-> "TOPUP",
                                currency |-> s.accounts[i].currency,
                                amountMinor |-> toMinor(amount),
                                fromAccountId |-> Undefined,
                                toAccountId |-> toAccountId]).s,
                    Undefined)

\* Faulty variant: the entry is posted in major units, without toMinor.
postTopup003EntryInMajor(s, userId, toAccountId, amount) ==
    LET i == FindIndex(s.accounts, LAMBDA a : a.id = toAccountId) IN
    IF i = 0 THEN Throw(s, "Account not found")
    ELSE IF s.accounts[i].userId # userId THEN Throw(s, "Forbidden")
    ELSE
        LET p == postTx(s, [type |-> "TOPUP", currency |-> s.accounts[i].currency,
                            amountMinor |-> toMinor(amount),
                            fromAccountId |-> Undefined,
                            toAccountId |-> toAccountId])
        IN Return(postEntry(p.s, [txId |-> p.tx.id, accountId |-> toAccountId,
                                  amountMinor |-> amount \div 1000]),
                  p.tx)

postTopup003(s, userId, toAccountId, amount) ==
    LET i == FindIndex(s.accounts, LAMBDA a : a.id = toAccountId) IN
    IF i = 0 THEN Throw(s, "Account not found")
    ELSE IF s.accounts[i].userId # userId THEN Throw(s, "Forbidden")
    ELSE
        LET acc == s.accounts[i]
            amountMinor == toMinor(amount)
            p == postTx(s, [type |-> "TOPUP", currency |-> acc.currency,
                            amountMinor |-> amountMinor,
                            fromAccountId |-> Undefined,
                            toAccountId |-> toAccountId])
            s2 == postEntry(p.s, [txId |-> p.tx.id, accountId |-> toAccountId,
                                  amountMinor |-> amountMinor])
        IN Return(s2, p.tx)

\* Faulty variant: the balance is the one read before the latest transfer landed
\* its two entries, as when the check and the appends are not one critical
\* section.
insufficientFundsStale(s, accountId, amountMinor) ==
    LET n == Len(s.entries)
        stale == IF n >= 2 /\ s.entries[n].txId = s.entries[n - 1].txId
                 THEN SubSeq(s.entries, 1, n - 2)
                 ELSE s.entries
    IN Less(getBalanceMinor([s EXCEPT !.entries = stale], accountId), amountMinor)

\* const bal = this.getBalanceMinor(fromAcc.id); if (bal < amountMinor) ...
insufficientFunds(s, accountId, amountMinor) ==
    Less(getBalanceMinor(s, accountId), amountMinor)

transfer003(s, token, fromAccountId, amount) ==
    LET who == getUserByToken(s, token) IN
    IF who.outcome # Ok THEN Throw(s, who.outcome)
    ELSE
        LET u == who.value
            i == FindIndex(s.accounts, LAMBDA a : a.id = fromAccountId)
        IN
        IF i = 0 THEN Throw(s, "From account not found")
        ELSE IF s.accounts[i].userId # u.id THEN Throw(s, "Forbidden")
        ELSE
            LET fromAcc == s.accounts[i]
                amountMinor == toMinor(amount)
            IN
            IF LessEq(amountMinor, 0) THEN Throw(s, "Amount must be > 0")
            ELSE IF insufficientFunds(s, fromAcc.id, amountMinor)
                 THEN Throw(s, "Insufficient funds")
            ELSE
                LET p == postTx(s, [type |-> "TRANSFER",
                                    currency |-> fromAcc.currency,
                                    amountMinor |-> amountMinor,
                                    fromAccountId |-> fromAcc.id,
                                    toAccountId |-> Undefined])
                    s2 == postEntry(p.s, [txId |-> p.tx.id,
                                          accountId |-> fromAcc.id,
                                          amountMinor |-> Neg(amountMinor)])
                    c == getOrCreateClearingAccount(s2, fromAcc.currency)
                    s3 == postEntry(c.s, [txId |-> p.tx.id, accountId |-> c.id,
                                          amountMinor |-> amountMinor])
                IN Return(s3, p.tx)

----------------------------------------------------------------------------
(* part_004: arrays instead of maps, no clearing leg, no amount check.     *)

postTopup004(s, userId, accountId, amount) ==
    LET i == FindIndex(s.accounts, LAMBDA a : a.id = accountId) IN
    IF i = 0 \/ (i # 0 /\ s.accounts[i].userId # userId)
    THEN Throw(s, "Forbidden")
    ELSE
        LET acc == s.accounts[i]
            minor == toMinor(amount)
            p == postTx004(s, [type |-> "TOPUP", currency |-> acc.currency,
                               amountMinor |-> minor,
                               fromAccountId |-> Undefined,
                               toAccountId |-> acc.id])
            s2 == postEntry(p.s, [txId |-> p.tx.id, accountId |-> acc.id,
                                  amountMinor |-> minor])
        IN Return(s2, p.tx)

transfer004(s, token, fromAccountId, amount) ==
    LET who == getUserByToken(s, token) IN
    IF who.outcome # Ok THEN Throw(s, who.outcome)
    ELSE
        LET u == who.value
            i == FindIndex(s.accounts,
                     LAMBDA a : a.id = fromAccountId /\ a.userId = u.id)
        IN
        IF i = 0 THEN Throw(s, "Forbidden")
        ELSE
            LET acc == s.accounts[i]
                minor == toMinor(amount)
            IN
            IF Less(balanceMinor(s, acc.id), minor)
            THEN Throw(s, "Insufficient funds")
            ELSE
                LET p == postTx004(s, [type |-> "TRANSFER",
                                       currency |-> acc.currency,
                                       amountMinor |-> minor,
                                       fromAccountId |-> acc.id,
                                       toAccountId |-> Undefined])
                    s2 == postEntry(p.s, [txId |-> p.tx.id, accountId |-> acc.id,
                                          amountMinor |-> Neg(minor)])
                IN Return(s2, p.tx)

----------------------------------------------------------------------------
(* part_005: maps again; postTopup checks nothing and books "USD".         *)

postTopup005(s, userId, toAccountId, amount) ==
    LET amountMinor == toMinor(amount)
        p == postTx(s, [type |-> "TOPUP", currency |-> "USD",
                        amountMinor |-> amountMinor,
                        fromAccountId |-> Undefined,
                        toAccountId |-> toAccountId])
        s2 == postEntry(p.s, [txId |-> p.tx.id, accountId |-> toAccountId,
                              amountMinor |-> amountMinor])
    IN Return(s2, p.tx)

transfer005(s, token, fromAccountId, amount) ==
    LET who == getUserByToken(s, token) IN
    IF who.outcome # Ok THEN Throw(s, who.outcome)
    ELSE
        LET u == who.value
            i == FindIndex(s.accounts, LAMBDA a : a.id = fromAccountId)
        IN
        IF i = 0 \/ (i # 0 /\ s.accounts[i].userId # u.id)
        THEN Throw(s, "Forbidden")
        ELSE
            LET acc == s.accounts[i]
                minor == toMinor(amount)
            IN
            IF Less(balanceMinor(s, acc.id), minor)
            THEN Throw(s, "Insufficient funds")
            ELSE
                LET p == postTx(s, [type |-> "TRANSFER",
                                    currency |-> acc.currency,
                                    amountMinor |-> minor,
                                    fromAccountId |-> acc.id,
                                    toAccountId |-> Undefined])
                    s2 == postEntry(p.s, [txId |-> p.tx.id, accountId |-> acc.id,
                                          amountMinor |-> Neg(minor)])
                IN Return(s2, p.tx)

----------------------------------------------------------------------------
(* The methods of the loaded revision.                                     *)

postTopup(rev, s, userId, toAccountId, amount) ==
    CASE rev = "part_003" -> postTopup003(s, userId, toAccountId, amount)
      [] rev = "part_004" -> postTopup004(s, userId, toAccountId, amount)
      [] rev = "part_005" -> postTopup005(s, userId, toAccountId, amount)

\* A transfer open to approved users only.
transferKycGated(rev, s, token, fromAccountId, amount) ==
    LET who == getUserByToken(s, token) IN
    IF who.outcome = Ok /\ who.value.kycStatus # "APPROVED"
    THEN Throw(s, "KYC required")
    ELSE CASE rev = "part_003" -> transfer003(s, token, fromAccountId, amount)
           [] rev = "part_004" -> transfer004(s, token, fromAccountId, amount)
           [] rev = "part_005" -> transfer005(s, token, fromAccountId, amount)

transfer(rev, s, token, fromAccountId, amount) ==
    CASE rev = "part_003" -> transfer003(s, token, fromAccountId, amount)
      [] rev = "part_004" -> transfer004(s, token, fromAccountId, amount)
      [] rev = "part_005" -> transfer005(s, token, fromAccountId, amount)

balanceOf(rev, s, accountId) ==
    IF rev = "part_003" THEN getBalanceMinor(s, accountId)
                        ELSE balanceMinor(s, accountId)

\* A bootstrap that creates the founder already approved, as that of
\* lib/nnexCore.ts does.
bootstrapApproved(rev, s) ==
    IF Len(s.users) > 0 THEN s
    ELSE
        LET user == [id |-> s.nextId, email |-> FOUNDER_EMAIL,
                     name |-> "NNEX Founder", kycStatus |-> "APPROVED"]
            accUSD == [id |-> s.nextId + 1, userId |-> user.id, currency |-> "USD"]
            accEUR == [id |-> s.nextId + 2, userId |-> user.id, currency |-> "EUR"]
            s2 == [s EXCEPT !.users = Append(@, user),
                            !.accounts = @ \o <<accUSD, accEUR>>,
                            !.nextId = @ + 3]
        IN postTopup(rev, s2, user.id, accUSD.id, Major(5000)).s

\* A bootstrap without `if (this.users.size > 0) return`.
bootstrapAgain(rev, s) ==
    LET user == [id |-> s.nextId, email |-> FOUNDER_EMAIL,
                 name |-> "NNEX Founder", kycStatus |-> "PENDING"]
        accUSD == [id |-> s.nextId + 1, userId |-> user.id, currency |-> "USD"]
        accEUR == [id |-> s.nextId + 2, userId |-> user.id, currency |-> "EUR"]
        s2 == [s EXCEPT !.users = Append(@, user),
                        !.accounts = @ \o <<accUSD, accEUR>>,
                        !.nextId = @ + 3]
    IN postTopup(rev, s2, user.id, accUSD.id, Major(5000)).s

\* bootstrap(): the same text in the three revisions.
bootstrap(rev, s) ==
    IF Len(s.users) > 0 THEN s
    ELSE
        LET user == [id |-> s.nextId, email |-> FOUNDER_EMAIL,
                     name |-> "NNEX Founder", kycStatus |-> "PENDING"]
            accUSD == [id |-> s.nextId + 1, userId |-> user.id, currency |-> "USD"]
            accEUR == [id |-> s.nextId + 2, userId |-> user.id, currency |-> "EUR"]
            s2 == [s EXCEPT !.users = Append(@, user),
                            !.accounts = @ \o <<accUSD, accEUR>>,
                            !.nextId = @ + 3]
        IN postTopup(rev, s2, user.id, accUSD.id, Major(5000)).s

\* login(email); part_003 words the message differently.
login(rev, s, email) ==
    LET i == FindIndex(s.users, LAMBDA u : u.email = email) IN
    IF i = 0
    THEN Throw(s, IF rev = "part_003"
                  THEN "User not found. Use founder@nnex.bank for demo."
                  ELSE "User not found")
    ELSE Return([s EXCEPT !.sessions = Append(@, [token |-> s.nextId,
                                                 userId |-> s.users[i].id]),
                          !.nextId = @ + 1],
                [token |-> s.nextId, userId |-> s.users[i].id])

----------------------------------------------------------------------------
(* KYC and the listings: methods that take the token.                      *)

\* A submitKyc that takes every fullName, the empty one too, as the name.
submitKycAlwaysRenames(s, token, fullName) ==
    LET who == getUserByToken(s, token) IN
    IF who.outcome # Ok THEN Throw(s, who.outcome)
    ELSE
        LET j == FindIndex(s.users, LAMBDA u : u.id = who.value.id)
            updated == [who.value EXCEPT !.name = fullName,
                                         !.kycStatus = "PENDING"]
        IN Return([s EXCEPT !.users[j] = updated], updated)

\* submitKyc: the user's record is replaced by one with kycStatus PENDING
\* and name `fullName || u.name` (part_004 assigns the fields of the record
\* in place).  Of the strings only the empty one is falsy.
submitKyc(s, token, fullName) ==
    LET who == getUserByToken(s, token) IN
    IF who.outcome # Ok THEN Throw(s, who.outcome)
    ELSE
        LET j == FindIndex(s.users, LAMBDA u : u.id = who.value.id)
            updated == [who.value EXCEPT
                           !.name = IF fullName # "" THEN fullName ELSE @,
                           !.kycStatus = "PENDING"]
        IN Return([s EXCEPT !.users[j] = updated], updated)

approveKycForDemo(s, token) ==
    LET who == getUserByToken(s, token) IN
    IF who.outcome # Ok THEN Throw(s, who.outcome)
    ELSE
        LET j == FindIndex(s.users, LAMBDA u : u.id = who.value.id)
            updated == [who.value EXCEPT !.kycStatus = "APPROVED"]
        IN Return([s EXCEPT !.users[j] = updated], updated)

\* A listing that also shows the accounts of SYSTEM.
listAccountsAndSystem(s, token) ==
    LET who == getUserByToken(s, token) IN
    IF who.outcome # Ok THEN Throw(s, who.outcome)
    ELSE Return(s, SelectSeq(s.accounts,
                             LAMBDA a : a.userId \in {who.value.id, SYSTEM}))

\* listAccounts / accountsByUser
listAccounts(s, token) ==
    LET who == getUserByToken(s, token) IN
    IF who.outcome # Ok THEN Throw(s, who.outcome)
    ELSE Return(s, SelectSeq(s.accounts, LAMBDA a : a.userId = who.value.id))

\* The transactions that touch an account of the user, in iteration order.
touchingUser(s, u) ==
    LET ids == {s.accounts[i].id :
                    i \in {k \in 1..Len(s.accounts) : s.accounts[k].userId = u.id}}
    IN SelectSeq(s.transactions,
                 LAMBDA t : t.fromAccountId \in ids \/ t.toAccountId \in ids)

\* txs.sort((a, b) => (a.createdAt < b.createdAt ? 1 : -1)).  The function
\* never returns 0, so it is not a consistent comparator when two
\* transactions share a createdAt, and the order of such a pair is left to
\* the engine's sort: every arrangement with no later transaction behind an
\* earlier one is an outcome.
sortByCreatedAt(txs) ==
    LET n == Len(txs)
        arrangements ==
            {f \in [1..n -> 1..n] :
                /\ \A i, j \in 1..n : i # j => f[i] # f[j]
                /\ \A i, j \in 1..n :
                      i < j => txs[f[i]].createdAt >= txs[f[j]].createdAt}
    IN {[i \in 1..n |-> txs[f[i]]] : f \in arrangements}

slice(seq, limit) == SubSeq(seq, 1, IF limit < Len(seq) THEN limit ELSE Len(seq))

\* A listing that sorts the stored transactions themselves, not a copy.
listTransactions003InPlace(s, token, limit) ==
    LET who == getUserByToken(s, token) IN
    IF who.outcome # Ok THEN {Throw(s, who.outcome)}
    ELSE {Return([s EXCEPT !.transactions = txs],
                 slice(SelectSeq(txs, LAMBDA t :
                                 t \in {touchingUser(s, who.value)[i] :
                                           i \in 1..Len(touchingUser(s, who.value))}),
                       limit)) :
            txs \in sortByCreatedAt(s.transactions)}

\* part_003 listTransactions(token, limit = 50): filter, sort, slice.
listTransactions003(s, token, limit) ==
    LET who == getUserByToken(s, token) IN
    IF who.outcome # Ok THEN {Throw(s, who.outcome)}
    ELSE {Return(s, slice(txs, limit)) :
            txs \in sortByCreatedAt(touchingUser(s, who.value))}

\* part_004 transactionsForUser(token): the filter alone.
transactionsForUser004(s, token) ==
    LET who == getUserByToken(s, token) IN
    IF who.outcome # Ok THEN {Throw(s, who.outcome)}
    ELSE {Return(s, touchingUser(s, who.value))}

\* part_005 listTransactions(token): filter and sort.
listTransactions005(s, token) ==
    LET who == getUserByToken(s, token) IN
    IF who.outcome # Ok THEN {Throw(s, who.outcome)}
    ELSE {Return(s, txs) : txs \in sortByCreatedAt(touchingUser(s, who.value))}

\* The outcomes of listing with (token, limit); part_004 and part_005 have
\* no second parameter and ignore the argument.
listTransactions(rev, s, token, limit) ==
    CASE rev = "part_003" -> listTransactions003(s, token, limit)
      [] rev = "part_004" -> transactionsForUser004(s, token)
      [] rev = "part_005" -> listTransactions005(s, token)

----------------------------------------------------------------------------
(* Callers of the class.  Every call leaves its arguments and its outcome  *)
(* in `last`; an argument that names nothing is NoSuchId.                  *)

TokenInputs == {sessions[i].token : i \in 1..Len(sessions)} \cup {NoSuchId}
UserIdInputs == {users[i].id : i \in 1..Len(users)} \cup {SYSTEM}
AccountIdInputs == {accounts[i].id : i \in 1..Len(accounts)} \cup {NoSuchId}

Call(op, who, acct, amount, email, outcome) ==
    [op |-> op, who |-> who, acct |-> acct, amount |-> amount,
     email |-> email, fullName |-> "", outcome |-> outcome]

\* The exploration lets a user log in once: one live token per user.
HasSession(userId) == \E i \in 1..Len(sessions) : sessions[i].userId = userId

NoCall == Call("none", Undefined, Undefined, 0, "", Ok)

Init ==
    /\ revision \in Revisions
    /\ users = <<>>
    /\ accounts = <<>>
    /\ sessions = <<>>
    /\ transactions = <<>>
    /\ entries = <<>>
    /\ nextId = 1
    /\ last = NoCall
    /\ inflight = <<>>
    /\ issued = {}
    /\ clock = 0
    /\ ls = NoItem
    /\ app = Unmounted

Bootstrap ==
    /\ Install(bootstrap(revision, State))
    /\ last' = Call("bootstrap", Undefined, Undefined, 0, "", Ok)
    /\ UNCHANGED <<revision, inflight, issued, storeVars>>

Login ==
    \E email \in EmailInputs :
        LET r == login(revision, State, email) IN
        /\ r.outcome = Ok => ~HasSession(r.value.userId)
        /\ Install(r.s)
        /\ last' = Call("login", Undefined, Undefined, 0, email, r.outcome)
        /\ issued' = IF r.outcome = Ok THEN issued \cup {r.value} ELSE issued
        /\ UNCHANGED <<revision, inflight, storeVars>>

PostTopup ==
    \E userId \in UserIdInputs, toAccountId \in AccountIdInputs,
       amount \in AmountInputs :
        LET r == postTopup(revision, State, userId, toAccountId, amount) IN
        /\ Len(transactions) < MaxTx
        /\ Install(r.s)
        /\ last' = Call("postTopup", userId, toAccountId, amount, "", r.outcome)
        /\ UNCHANGED <<revision, inflight, issued, storeVars>>

Transfer ==
    \E token \in TokenInputs, fromAccountId \in AccountIdInputs,
       amount \in AmountInputs :
        LET r == transfer(revision, State, token, fromAccountId, amount) IN
        /\ Len(transactions) < MaxTx
        /\ Install(r.s)
        /\ last' = Call("transfer", token, fromAccountId, amount, "", r.outcome)
        /\ UNCHANGED <<revision, inflight, issued, storeVars>>

Next == Bootstrap \/ Login \/ PostTopup \/ Transfer

Spec == Init /\ [][Next]_vars

----------------------------------------------------------------------------
(* Callers of the module of part_003: the core is constructed and          *)
(* bootstrapped when the module is loaded; nnexApi.transfer is an async    *)
(* function, so a call runs core.transfer to its end and hands back a      *)
(* promise that the caller awaits later.  `inflight` holds the promises    *)
(* not yet awaited, oldest first, each with the length of the ledger       *)
(* before and after its call.  postTopup is a method of the core, not of   *)
(* the facade; the module calls it as bootstrap does.                      *)

ApiAmountInputs == {Major(100), Major(60)}

\* The callers of the facade have logged in and name accounts of users;
\* what a stranger's token or a missing account gives is explored by Spec.
IssuedTokens == {sessions[i].token : i \in 1..Len(sessions)}
UserAccountInputs ==
    {accounts[i].id : i \in {j \in 1..Len(accounts) : accounts[j].userId # SYSTEM}}

\* const core = new NNEXCore(); core.bootstrap();
LoadedCore == bootstrap("part_003", EmptyCore)

InitApi ==
    /\ revision = "part_003"
    /\ users = LoadedCore.users
    /\ accounts = LoadedCore.accounts
    /\ sessions = LoadedCore.sessions
    /\ transactions = LoadedCore.transactions
    /\ entries = LoadedCore.entries
    /\ nextId = LoadedCore.nextId
    /\ last = NoCall
    /\ inflight = <<>>
    /\ issued = {}
    /\ clock = 0
    /\ ls = NoItem
    /\ app = Unmounted

ApiLogin ==
    \E email \in EmailInputs :
        LET r == login(revision, State, email) IN
        /\ r.outcome = Ok => ~HasSession(r.value.userId)
        /\ Install(r.s)
        /\ issued' = IF r.outcome = Ok THEN issued \cup {r.value} ELSE issued
        /\ UNCHANGED <<revision, last, inflight, storeVars>>

ModuleTopup ==
    \E userId \in UserIdInputs, toAccountId \in UserAccountInputs,
       amount \in ApiAmountInputs :
        LET r == postTopup(revision, State, userId, toAccountId, amount) IN
        /\ Len(transactions) < MaxTx
        /\ Install(r.s)
        /\ UNCHANGED <<revision, last, inflight, issued, storeVars>>

ApiTransfer ==
    \E token \in IssuedTokens, fromAccountId \in UserAccountInputs,
       amount \in ApiAmountInputs :
        LET r == transfer(revision, State, token, fromAccountId, amount) IN
        /\ r.outcome = Ok => Len(transactions) <= MaxTx
        /\ Len(inflight) < MaxInflight
        /\ Install(r.s)
        /\ inflight' = Append(inflight,
                [token |-> token, from |-> fromAccountId, amount |-> amount,
                 outcome |-> r.outcome,
                 len0 |-> Len(entries), len1 |-> Len(r.s.entries)])
        /\ UNCHANGED <<revision, last, issued, storeVars>>

Await ==
    /\ inflight # <<>>
    /\ inflight' = Tail(inflight)
    /\ UNCHANGED <<revision, users, accounts, sessions, transactions, entries,
                   nextId, last, issued, clock, storeVars>>

NextApi == ApiLogin \/ ModuleTopup \/ ApiTransfer \/ Await

SpecApi == InitApi /\ [][NextApi]_vars

----------------------------------------------------------------------------
(* Callers of the whole class: the postings of Spec, the methods that take *)
(* the token, and a clock that may tick between two calls (now() is the    *)
(* wall clock in milliseconds: two calls can read the same value).         *)

MaxClock == 1

DefaultLimit == 50
NameInputs == {"", "Ada Lovelace"}
LimitInputs == {1, DefaultLimit}

Tick ==
    /\ clock < MaxClock
    /\ clock' = clock + 1
    /\ UNCHANGED <<revision, users, accounts, sessions, transactions, entries,
                   nextId, last, inflight, issued, storeVars>>

Me ==
    \E token \in TokenInputs :
        LET r == getUserByToken(State, token) IN
        /\ Install(r.s)
        /\ last' = Call("me", token, Undefined, 0, "", r.outcome)
        /\ UNCHANGED <<revision, inflight, issued, storeVars>>

SubmitKyc ==
    \E token \in TokenInputs, fullName \in NameInputs :
        LET r == submitKyc(State, token, fullName) IN
        /\ Install(r.s)
        /\ last' = [Call("submitKyc", token, Undefined, 0, "", r.outcome)
                       EXCEPT !.fullName = fullName]
        /\ UNCHANGED <<revision, inflight, issued, storeVars>>

ApproveKycForDemo ==
    \E token \in TokenInputs :
        LET r == approveKycForDemo(State, token) IN
        /\ Install(r.s)
        /\ last' = Call("approveKycForDemo", token, Undefined, 0, "", r.outcome)
        /\ UNCHANGED <<revision, inflight, issued, storeVars>>

ListAccounts ==
    \E token \in TokenInputs :
        LET r == listAccounts(State, token) IN
        /\ Install(r.s)
        /\ last' = Call("listAccounts", token, Undefined, 0, "", r.outcome)
        /\ UNCHANGED <<revision, inflight, issued, storeVars>>

\* getBalanceMinor(accountId) / balanceMinor(accountId): takes no token.
GetBalanceMinor ==
    \E accountId \in AccountIdInputs :
        /\ balanceOf(revision, State, accountId) \in Int
        /\ last' = Call("getBalanceMinor", Undefined, accountId, 0, "", Ok)
        /\ UNCHANGED <<coreVars, clock, revision, inflight, issued, storeVars>>

ListTransactions ==
    \E token \in TokenInputs, limit \in LimitInputs :
        \E r \in listTransactions(revision, State, token, limit) :
            /\ Install(r.s)
            /\ last' = Call("listTransactions", token, Undefined, 0, "", r.outcome)
            /\ UNCHANGED <<revision, inflight, issued, storeVars>>

\* The postings, with the amounts of the facade's callers; what the other
\* amounts give is explored by Spec.
GatePostTopup ==
    \E userId \in UserIdInputs, toAccountId \in AccountIdInputs,
       amount \in ApiAmountInputs :
        LET r == postTopup(revision, State, userId, toAccountId, amount) IN
        /\ Len(transactions) < MaxTx
        /\ Install(r.s)
        /\ last' = Call("postTopup", userId, toAccountId, amount, "", r.outcome)
        /\ UNCHANGED <<revision, inflight, issued, storeVars>>

GateTransfer ==
    \E token \in TokenInputs, fromAccountId \in AccountIdInputs,
       amount \in ApiAmountInputs :
        LET r == transfer(revision, State, token, fromAccountId, amount) IN
        /\ Len(transactions) < MaxTx
        /\ Install(r.s)
        /\ last' = Call("transfer", token, fromAccountId, amount, "", r.outcome)
        /\ UNCHANGED <<revision, inflight, issued, storeVars>>

NextGate ==
    \/ Bootstrap \/ Login \/ GatePostTopup \/ GateTransfer \/ Tick
    \/ Me \/ SubmitKyc \/ ApproveKycForDemo \/ ListAccounts \/ ListTransactions
    \/ GetBalanceMinor

SpecGate == Init /\ [][NextGate]_vars

----------------------------------------------------------------------------
(* Callers that pass any number: `amount: number` admits NaN and the       *)
(* infinities, which a form field parsed with Number() can produce.        *)

NumberInputs == ApiAmountInputs \cup {NaN, Infinity, NegInfinity}

TransferAnyNumber ==
    \E token \in TokenInputs, fromAccountId \in AccountIdInputs,
       amount \in NumberInputs :
        LET r == transfer(revision, State, token, fromAccountId, amount) IN
        /\ Len(transactions) < MaxTx
        /\ Install(r.s)
        /\ last' = Call("transfer", token, fromAccountId, amount, "", r.outcome)
        /\ UNCHANGED <<revision, inflight, issued, storeVars>>

NextNumbers == Bootstrap \/ Login \/ TransferAnyNumber

SpecNumbers == Init /\ [][NextNumbers]_vars

----------------------------------------------------------------------------
(* src/nnex-bank/src/pages/api/_store.ts: the store kept in localStorage.  *)
(* Every exported function reads the item (seeding it when it is absent)   *)
(* and writes it back whole.  A function takes and returns the world it    *)
(* works on: the item and the next id of createId.  Titles, phone, names   *)
(* of banks, addresses, notes and createdAt are left out of the records.   *)
(* Amounts are in thousandths of the major unit, as those of the cores.    *)

World == [ls |-> ls, nextId |-> nextId]

\* seedIfEmpty(): the demo user, two accounts, two beneficiaries and two
\* templates, written to localStorage when the item is absent.
seedIfEmpty(w) ==
    IF w.ls.stored THEN [w |-> w, state |-> w.ls]
    ELSE
        LET n == w.nextId
            state ==
                [stored |-> TRUE,
                 user |-> [id |-> n, email |-> FOUNDER_EMAIL, kyc |-> "approved"],
                 accounts |->
                    <<[id |-> n + 1, currency |-> "USD",
                       balance |-> Major(125430)],
                      [id |-> n + 2, currency |-> "USDT", balance |-> 5021550]>>,
                 txs |-> <<>>,
                 beneficiaries |->
                    <<[id |-> n + 3, name |-> "White Crypto Swap", kind |-> "crypto"],
                      [id |-> n + 4, name |-> "Acme Consulting LLC", kind |-> "bank"]>>,
                 templates |->
                    <<[id |-> n + 5, beneficiaryId |-> n + 3,
                       amount |-> Major(250), currency |-> "USDT"],
                      [id |-> n + 6, beneficiaryId |-> n + 4,
                       amount |-> Major(1200), currency |-> "USD"]>>]
        IN [w |-> [ls |-> state, nextId |-> n + 7], state |-> state]

\* getState(): readLS() ?? seedIfEmpty()
getState(w) == IF w.ls.stored THEN [w |-> w, state |-> w.ls] ELSE seedIfEmpty(w)

setState(w, next) == [w EXCEPT !.ls = next]

resetState(w) == [w EXCEPT !.ls = NoItem]

\* A loginByEmail that gives a new user an empty list of accounts.
loginByEmailWithoutAccounts(w, email) ==
    LET g == getState(w)
        s == g.state
    IN
    IF s.user # NoUser /\ toLowerCase(s.user.email) = toLowerCase(email)
    THEN [w |-> g.w, user |-> s.user]
    ELSE
        LET user == [id |-> g.w.nextId, email |-> email, kyc |-> "approved"]
        IN [w |-> setState([g.w EXCEPT !.nextId = @ + 1],
                           [s EXCEPT !.user = user, !.accounts = <<>>]),
            user |-> user]

\* loginByEmail(email): the stored user when the emails agree up to case,
\* otherwise a new user that replaces the stored one.
loginByEmail(w, email) ==
    LET g == getState(w)
        s == g.state
    IN
    IF s.user # NoUser /\ toLowerCase(s.user.email) = toLowerCase(email)
    THEN [w |-> g.w, user |-> s.user]
    ELSE
        LET user == [id |-> g.w.nextId, email |-> email, kyc |-> "approved"]
        IN [w |-> setState([g.w EXCEPT !.nextId = @ + 1], [s EXCEPT !.user = user]),
            user |-> user]

logout(w) ==
    LET g == getState(w) IN setState(g.w, [g.state EXCEPT !.user = NoUser])

\* updateAccountBalance(accountId, newBalance)
updateAccountBalance(w, accountId, newBalance) ==
    LET g == getState(w)
        s == g.state
    IN setState(g.w,
          [s EXCEPT !.accounts =
              [i \in 1..Len(s.accounts) |->
                  IF s.accounts[i].id = accountId
                  THEN [s.accounts[i] EXCEPT !.balance = newBalance]
                  ELSE s.accounts[i]]])

\* pushTx(tx)
pushTx(w, tx) ==
    LET g == getState(w) IN setState(g.w, [g.state EXCEPT !.txs = <<tx>> \o @])

\* addBeneficiary(input)
addBeneficiary(w, input) ==
    LET g == getState(w)
        ben == [id |-> g.w.nextId, name |-> input.name, kind |-> input.kind]
    IN setState([g.w EXCEPT !.nextId = @ + 1],
                [g.state EXCEPT !.beneficiaries = <<ben>> \o @])

\* removeBeneficiary(id): the beneficiary and the templates that name it.
removeBeneficiary(w, id) ==
    LET g == getState(w)
        s == g.state
    IN setState(g.w,
          [s EXCEPT
              !.beneficiaries = SelectSeq(@, LAMBDA b : b.id # id),
              !.templates = SelectSeq(@, LAMBDA tpl : tpl.beneficiaryId # id)])

\* addTemplate(input)
addTemplate(w, input) ==
    LET g == getState(w)
        tpl == [id |-> g.w.nextId, beneficiaryId |-> input.beneficiaryId,
                amount |-> input.amount, currency |-> input.currency]
    IN setState([g.w EXCEPT !.nextId = @ + 1],
                [g.state EXCEPT !.templates = <<tpl>> \o @])

\* removeTemplate(id)
removeTemplate(w, id) ==
    LET g == getState(w)
    IN setState(g.w, [g.state EXCEPT
                         !.templates = SelectSeq(@, LAMBDA tpl : tpl.id # id)])

\* +x.toFixed(2): to the nearest hundredth (no input lies half way).
toFixed2(x) ==
    IF ~IsFinite(x) THEN x
    ELSE IF x >= 0 THEN ((x + 5) \div 10) * 10
    ELSE 0 - ((((0 - x) + 5) \div 10) * 10)

Failed(w, error) == [w |-> w, ok |-> FALSE, error |-> error]

\* sendTransfer({beneficiaryId, amount, currency})
sendTransfer(w, beneficiaryId, amount, currency) ==
    IF ~IsFinite(amount) \/ LessEq(amount, 0) THEN Failed(w, "Invalid amount")
    ELSE
        LET g == getState(w)
            s == g.state
            ai == FindIndex(s.accounts, LAMBDA a : a.currency = currency)
            bi == FindIndex(s.beneficiaries, LAMBDA b : b.id = beneficiaryId)
        IN
        IF ai = 0 THEN Failed(g.w, "Account not found")
        ELSE IF Less(s.accounts[ai].balance, amount)
        THEN Failed(g.w, "Insufficient funds")
        ELSE IF bi = 0 THEN Failed(g.w, "Beneficiary not found")
        ELSE
            LET acc == s.accounts[ai]
                accs == [i \in 1..Len(s.accounts) |->
                            IF s.accounts[i].id = acc.id
                            THEN [s.accounts[i] EXCEPT
                                     !.balance = toFixed2(@ - amount)]
                            ELSE s.accounts[i]]
                tx == [id |-> g.w.nextId, type |-> "transfer",
                       status |-> "success", to |-> s.beneficiaries[bi].name,
                       amount |-> toFixed2(amount), currency |-> currency]
            IN [w |-> setState([g.w EXCEPT !.nextId = @ + 1],
                               [s EXCEPT !.accounts = accs,
                                         !.txs = <<tx>> \o @]),
                ok |-> TRUE, error |-> ""]

\* runTemplate(templateId)
runTemplate(w, templateId) ==
    LET g == getState(w)
        ti == FindIndex(g.state.templates, LAMBDA x : x.id = templateId)
    IN
    IF ti = 0 THEN Failed(g.w, "Template not found")
    ELSE sendTransfer(g.w, g.state.templates[ti].beneficiaryId,
                      g.state.templates[ti].amount,
                      g.state.templates[ti].currency)

MaxIds == 9

InitStore ==
    /\ revision = "_store.ts"
    /\ users = <<>>
    /\ accounts = <<>>
    /\ sessions = <<>>
    /\ transactions = <<>>
    /\ entries = <<>>
    /\ nextId = 1
    /\ last = NoCall
    /\ inflight = <<>>
    /\ issued = {}
    /\ clock = 0
    /\ ls = NoItem
    /\ app = Unmounted

ledgerVars ==
    <<revision, users, accounts, sessions, transactions, entries, inflight,
      issued, clock, app>>

StoreGetState ==
    LET g == getState(World) IN
    /\ g.w.nextId <= MaxIds
    /\ ls' = g.w.ls
    /\ nextId' = g.w.nextId
    /\ last' = Call("getState", Undefined, Undefined, 0, "", Ok)
    /\ UNCHANGED ledgerVars

LoginByEmail ==
    \E email \in EmailInputs :
        LET r == loginByEmail(World, email) IN
        /\ r.w.nextId <= MaxIds
        /\ ls' = r.w.ls
        /\ nextId' = r.w.nextId
        /\ last' = Call("loginByEmail", r.user.id, Undefined, 0, email, Ok)
        /\ UNCHANGED ledgerVars

Logout ==
    LET w == logout(World) IN
    /\ w.nextId <= MaxIds
    /\ ls' = w.ls
    /\ nextId' = w.nextId
    /\ last' = Call("logout", Undefined, Undefined, 0, "", Ok)
    /\ UNCHANGED ledgerVars

ResetState ==
    /\ ls' = resetState(World).ls
    /\ last' = Call("resetState", Undefined, Undefined, 0, "", Ok)
    /\ UNCHANGED <<nextId, ledgerVars>>

\* What the callers of the store pass.  Of these calls `last` keeps the
\* name and the outcome only.
Stored == getState(World).state
BeneficiaryIdInputs ==
    {Stored.beneficiaries[i].id : i \in 1..Len(Stored.beneficiaries)}
        \cup {NoSuchId}
TemplateIdInputs ==
    {Stored.templates[i].id : i \in 1..Len(Stored.templates)} \cup {NoSuchId}
StoreAccountIdInputs == {Stored.accounts[i].id : i \in 1..Len(Stored.accounts)}
StoreCurrencies == {"USD", "USDT", "EUR"}
StoreAmountInputs == {Major(100), 4, NaN, Major(200000)}
BalanceInputs == {Major(50)}

SendTransfer ==
    \E beneficiaryId \in BeneficiaryIdInputs, amount \in StoreAmountInputs,
       currency \in StoreCurrencies :
        LET r == sendTransfer(World, beneficiaryId, amount, currency) IN
        /\ r.w.nextId <= MaxIds
        /\ Len(r.w.ls.txs) < MaxTx
        /\ ls' = r.w.ls
        /\ nextId' = r.w.nextId
        /\ last' = Call("sendTransfer", Undefined, Undefined, 0, "",
                        IF r.ok THEN Ok ELSE r.error)
        /\ UNCHANGED ledgerVars

RunTemplate ==
    \E templateId \in TemplateIdInputs :
        LET r == runTemplate(World, templateId) IN
        /\ r.w.nextId <= MaxIds
        /\ Len(r.w.ls.txs) < MaxTx
        /\ ls' = r.w.ls
        /\ nextId' = r.w.nextId
        /\ last' = Call("runTemplate", Undefined, Undefined, 0, "",
                        IF r.ok THEN Ok ELSE r.error)
        /\ UNCHANGED ledgerVars

UpdateAccountBalance ==
    \E accountId \in StoreAccountIdInputs, newBalance \in BalanceInputs :
        LET w == updateAccountBalance(World, accountId, newBalance) IN
        /\ w.nextId <= MaxIds
        /\ ls' = w.ls
        /\ nextId' = w.nextId
        /\ last' = Call("updateAccountBalance", Undefined, Undefined, 0, "", Ok)
        /\ UNCHANGED ledgerVars

PushTx ==
    \E type \in {"deposit"}, currency \in {"USD"} :
        LET g == getState(World)
            tx == [id |-> g.w.nextId, type |-> type, status |-> "success",
                   to |-> "", amount |-> Major(100), currency |-> currency]
            w == pushTx([g.w EXCEPT !.nextId = @ + 1], tx)
        IN
        /\ w.nextId <= MaxIds
        /\ Len(w.ls.txs) < MaxTx
        /\ ls' = w.ls
        /\ nextId' = w.nextId
        /\ last' = Call("pushTx", Undefined, Undefined, 0, "", Ok)
        /\ UNCHANGED ledgerVars

AddBeneficiary ==
    LET w == addBeneficiary(World, [name |-> "Bob", kind |-> "bank"]) IN
    /\ w.nextId <= MaxIds
    /\ ls' = w.ls
    /\ nextId' = w.nextId
    /\ last' = Call("addBeneficiary", Undefined, Undefined, 0, "", Ok)
    /\ UNCHANGED ledgerVars

RemoveBeneficiary ==
    \E id \in BeneficiaryIdInputs :
        LET w == removeBeneficiary(World, id) IN
        /\ w.nextId <= MaxIds
        /\ ls' = w.ls
        /\ nextId' = w.nextId
        /\ last' = Call("removeBeneficiary", Undefined, Undefined, 0, "", Ok)
        /\ UNCHANGED ledgerVars

AddTemplate ==
    \E beneficiaryId \in BeneficiaryIdInputs :
        LET w == addTemplate(World, [beneficiaryId |-> beneficiaryId,
                                     amount |-> Major(100), currency |-> "USD"])
        IN
        /\ w.nextId <= MaxIds
        /\ ls' = w.ls
        /\ nextId' = w.nextId
        /\ last' = Call("addTemplate", Undefined, Undefined, 0, "", Ok)
        /\ UNCHANGED ledgerVars

RemoveTemplate ==
    \E id \in TemplateIdInputs :
        LET w == removeTemplate(World, id) IN
        /\ w.nextId <= MaxIds
        /\ ls' = w.ls
        /\ nextId' = w.nextId
        /\ last' = Call("removeTemplate", Undefined, Undefined, 0, "", Ok)
        /\ UNCHANGED ledgerVars

NextStore ==
    \/ StoreGetState \/ LoginByEmail \/ Logout \/ ResetState
    \/ SendTransfer \/ RunTemplate \/ UpdateAccountBalance \/ PushTx
    \/ AddBeneficiary \/ RemoveBeneficiary \/ AddTemplate \/ RemoveTemplate

SpecStore == InitStore /\ [][NextStore]_vars

----------------------------------------------------------------------------
(* src/nnex-bank/src/App.tsx: the React component.  `state` is what        *)
(* useState holds, `rendered` the state the last render closed over (the   *)
(* handlers read it as `state` and `acc`), and `queue` the updates passed  *)
(* to setState since that render: an object replaces the state, a function *)
(* is applied to the state the queue has produced so far.  React applies   *)
(* the queue when it renders next.  The email field, the names of the      *)
(* accounts, the ibans, the ids and the dates of the txs are left out.     *)
(* The component has three revisions: App.tsx, part_001 (whose UI is the   *)
(* balance, Send and Reset, and whose send has no `value <= 0` test) and   *)
(* part_002 (the Telegram build, without register, kyc and Reset).  After  *)
(* every render an effect saves the state under storeKey, and a mount      *)
(* starts from what is saved there; App.tsx and part_001 use the same key. *)

AppRevisions == {"App.tsx", "part_001", "part_002"}

\* const storeKey
storeKey(rev) == IF rev = "part_002" THEN "nnex_bank_tg" ELSE "nnex_bank_full_demo"

MaxPending == 2

initial ==
    [screen |-> "welcome",
     accounts |-> <<[id |-> "usd", currency |-> "USD", balance |-> 125418],
                    [id |-> "eur", currency |-> "EUR", balance |-> 64210]>>,
     beneficiaries |-> <<[id |-> "b1", name |-> "White Crypto Swap",
                          template |-> "25000"]>>,
     txs |-> <<>>,
     activeAccount |-> "usd",
     selectedBeneficiary |-> "",
     amount |-> ""]

Screens == {"register", "kyc", "dashboard", "transfer", "beneficiaries"}
AmountTexts == {"", "abc", "25000", "70000", "-100"}
BeneficiaryOptions == {"", "b1"}

\* Number(text) for the texts typed into the amount field.
Number(text) ==
    CASE text = "" -> 0
      [] text = "abc" -> NaN
      [] text = "25000" -> 25000
      [] text = "70000" -> 70000
      [] text = "-100" -> 0 - 100

\* The updater send passes to setState, closed over acc, b and value.
sendUpdater(s, accId, currency, to, value) ==
    [s EXCEPT
        !.accounts = [i \in 1..Len(s.accounts) |->
                         IF s.accounts[i].id = accId
                         THEN [s.accounts[i] EXCEPT !.balance = @ - value]
                         ELSE s.accounts[i]],
        !.txs = <<[to |-> to, amount |-> value, currency |-> currency]>> \o @,
        !.amount = "",
        !.screen = "dashboard"]

applyUpdate(s, u) ==
    IF u.kind = "object" THEN u.object
    ELSE sendUpdater(s, u.accId, u.currency, u.to, u.value)

RECURSIVE applyQueue(_, _)
applyQueue(s, queue) ==
    IF queue = <<>> THEN s
    ELSE applyQueue(applyUpdate(s, Head(queue)), Tail(queue))

\* setState(object)
enqueueObject(a, object) ==
    [a EXCEPT !.queue = Append(@, [kind |-> "object", object |-> object])]

\* send(): validates against the rendered state, then queues the updater.
send(rev, a) ==
    LET state == a.rendered
        bi == FindIndex(state.beneficiaries,
                        LAMBDA x : x.id = state.selectedBeneficiary)
        ai == FindIndex(state.accounts, LAMBDA x : x.id = state.activeAccount)
        value == Number(state.amount)
    IN
    IF bi = 0 \/ value = 0 \/ value = NaN
          \/ (rev # "part_001" /\ LessEq(value, 0)) \/ ai = 0
    THEN a
    ELSE IF Less(state.accounts[ai].balance, value) THEN a
    ELSE [a EXCEPT !.queue =
             Append(@, [kind |-> "updater",
                        accId |-> state.accounts[ai].id,
                        currency |-> state.accounts[ai].currency,
                        to |-> state.beneficiaries[bi].name,
                        value |-> value])]

\* React renders: the queue is applied and the handlers close over the result.
render(a) ==
    LET next == applyQueue(a.state, a.queue)
    IN [state |-> next, rendered |-> next, queue |-> <<>>]

\* The component mounts from the state `saved`; in part_002 the mount
\* effect moves on to the dashboard when Telegram names a user.
mount(rev, saved) ==
    {[state |-> s, rendered |-> s, queue |-> <<>>] :
        s \in {saved} \cup (IF rev = "part_002"
                            THEN {[saved EXCEPT !.screen = "dashboard"]}
                            ELSE {})}

InitApp ==
    /\ revision \in AppRevisions
    /\ users = <<>>
    /\ accounts = <<>>
    /\ sessions = <<>>
    /\ transactions = <<>>
    /\ entries = <<>>
    /\ nextId = 1
    /\ last = NoCall
    /\ inflight = <<>>
    /\ issued = {}
    /\ clock = 0
    /\ ls = NoItem
    /\ app \in mount(revision, initial)

appFrame ==
    <<users, accounts, sessions, transactions, entries, nextId,
      inflight, issued, clock, ls>>

\* The screens a revision has buttons to.
ScreensOf(rev) ==
    CASE rev = "App.tsx" -> Screens
      [] rev = "part_001" -> {}
      [] rev = "part_002" -> {"dashboard", "transfer", "beneficiaries"}

\* The buttons that lead to another screen.
GoTo ==
    \E screen \in ScreensOf(revision) :
        /\ Len(app.queue) < MaxPending
        /\ app' = enqueueObject(app, [app.rendered EXCEPT !.screen = screen])
        /\ last' = Call("goTo", Undefined, Undefined, 0, "", Ok)
        /\ UNCHANGED <<revision, appFrame>>

\* onChange of the select on the transfer screen.
SelectBeneficiary ==
    \E id \in BeneficiaryOptions :
        LET state == app.rendered
            bi == FindIndex(state.beneficiaries, LAMBDA x : x.id = id)
        IN
        /\ revision # "part_001"
        /\ state.screen = "transfer"
        /\ Len(app.queue) < MaxPending
        /\ app' = enqueueObject(app,
                     [state EXCEPT
                         !.selectedBeneficiary = id,
                         !.amount = IF bi = 0 THEN ""
                                    ELSE state.beneficiaries[bi].template])
        /\ last' = Call("selectBeneficiary", Undefined, Undefined, 0, "", Ok)
        /\ UNCHANGED <<revision, appFrame>>

\* onChange of the amount field.
TypeAmount ==
    \E text \in AmountTexts :
        /\ revision # "part_001"
        /\ app.rendered.screen = "transfer"
        /\ Len(app.queue) < MaxPending
        /\ app' = enqueueObject(app, [app.rendered EXCEPT !.amount = text])
        /\ last' = Call("typeAmount", Undefined, Undefined, 0, "", Ok)
        /\ UNCHANGED <<revision, appFrame>>

\* onClick of the Send button: on the transfer screen, in part_001 always.
Send ==
    /\ revision = "part_001" \/ app.rendered.screen = "transfer"
    /\ Len(app.queue) < MaxPending
    /\ Len(applyQueue(app.state, app.queue).txs) < MaxTx
    /\ app' = send(revision, app)
    /\ last' = Call("send", Undefined, Undefined, 0, "",
                    IF send(revision, app) = app THEN "ignored" ELSE Ok)
    /\ UNCHANGED <<revision, appFrame>>

Render ==
    /\ app.queue # <<>>
    /\ app' = render(app)
    /\ last' = Call("render", Undefined, Undefined, 0, "", Ok)
    /\ UNCHANGED <<revision, appFrame>>

\* reset(): removes the saved state and reloads the page.
Reset ==
    /\ \/ revision = "part_001"
       \/ revision = "App.tsx" /\ app.rendered.screen = "dashboard"
    /\ app' \in mount(revision, initial)
    /\ last' = Call("reset", Undefined, Undefined, 0, "", Ok)
    /\ UNCHANGED <<revision, appFrame>>

\* The page is loaded again, by the same build or by another build that
\* uses the same storeKey: it mounts from the state the effect has saved,
\* the state of the last render.
Reload ==
    \E rev \in AppRevisions :
        /\ storeKey(rev) = storeKey(revision)
        /\ revision' = rev
        /\ app' \in mount(rev, app.state)
        /\ last' = Call("reload", Undefined, Undefined, 0, "", Ok)
        /\ UNCHANGED appFrame

NextApp ==
    GoTo \/ SelectBeneficiary \/ TypeAmount \/ Send \/ Render \/ Reset \/ Reload

SpecApp == InitApp /\ [][NextApp]_vars

----------------------------------------------------------------------------
(* src/nnex-bank/src/lib/nnexCore.ts: the core without a ledger.  It keeps *)
(* users, accounts and transactions in arrays, has no sessions and no      *)
(* entries, and its transactions carry `amount` in major units, `from`,    *)
(* an account id, and `to`, a label the caller chooses.  Labels are        *)
(* numbered below the ids, so that a label and an id can be compared.      *)

InitialFunding == 0 - 3
Bob == 0 - 4

bootstrapLib(s) ==
    IF Len(s.users) > 0 THEN s
    ELSE
        LET user == [id |-> s.nextId, email |-> FOUNDER_EMAIL,
                     name |-> "NNEX Founder", kycStatus |-> "APPROVED"]
            usd == [id |-> s.nextId + 1, userId |-> user.id, currency |-> "USD"]
            eur == [id |-> s.nextId + 2, userId |-> user.id, currency |-> "EUR"]
        IN [s EXCEPT
               !.users = Append(@, user),
               !.accounts = @ \o <<usd, eur>>,
               !.transactions =
                   Append(@, [id |-> s.nextId + 3, type |-> "TOPUP",
                              createdAt |-> s.now, currency |-> "USD",
                              amount |-> Major(5000), from |-> Undefined,
                              to |-> InitialFunding]),
               !.nextId = @ + 4]

loginLib(s, email) ==
    LET i == FindIndex(s.users, LAMBDA u : u.email = email) IN
    IF i = 0 THEN Throw(s, "User not found") ELSE Return(s, s.users[i])

listAccountsLib(s, userId) ==
    Return(s, SelectSeq(s.accounts, LAMBDA a : a.userId = userId))

\* this.transactions.slice().reverse()
listTransactionsLib(s) ==
    Return(s, [i \in 1..Len(s.transactions) |->
                  s.transactions[Len(s.transactions) + 1 - i]])

transferLib(s, fromAccountId, to, amount, currency) ==
    IF LessEq(amount, 0) THEN Throw(s, "Invalid amount")
    ELSE Return([s EXCEPT
                    !.transactions =
                        Append(@, [id |-> s.nextId, type |-> "TRANSFER",
                                   createdAt |-> s.now, currency |-> currency,
                                   amount |-> amount, from |-> fromAccountId,
                                   to |-> to]),
                    !.nextId = @ + 1],
                Undefined)

\* const core = new NNEXCore(); core.bootstrap();
LoadedLib == bootstrapLib(EmptyCore)

InitLib ==
    /\ revision = "lib/nnexCore.ts"
    /\ users = LoadedLib.users
    /\ accounts = LoadedLib.accounts
    /\ sessions = LoadedLib.sessions
    /\ transactions = LoadedLib.transactions
    /\ entries = LoadedLib.entries
    /\ nextId = LoadedLib.nextId
    /\ last = NoCall
    /\ inflight = <<>>
    /\ issued = {}
    /\ clock = 0
    /\ ls = NoItem
    /\ app = Unmounted

ToInputs == {Bob} \cup {accounts[i].id : i \in 1..Len(accounts)}

LibLogin ==
    \E email \in EmailInputs :
        LET r == loginLib(State, email) IN
        /\ Install(r.s)
        /\ last' = Call("login", Undefined, Undefined, 0, email, r.outcome)
        /\ UNCHANGED <<revision, inflight, issued, storeVars>>

LibListAccounts ==
    \E userId \in UserIdInputs :
        LET r == listAccountsLib(State, userId) IN
        /\ Install(r.s)
        /\ last' = Call("listAccounts", userId, Undefined, 0, "", r.outcome)
        /\ UNCHANGED <<revision, inflight, issued, storeVars>>

LibListTransactions ==
    LET r == listTransactionsLib(State) IN
    /\ Install(r.s)
    /\ last' = Call("listTransactions", Undefined, Undefined, 0, "", r.outcome)
    /\ UNCHANGED <<revision, inflight, issued, storeVars>>

LibTransfer ==
    \E fromAccountId \in AccountIdInputs, to \in ToInputs,
       amount \in AmountInputs, currency \in {"USD", "EUR"} :
        LET r == transferLib(State, fromAccountId, to, amount, currency) IN
        /\ Len(transactions) < MaxTx
        /\ Install(r.s)
        /\ last' = Call("transfer", Undefined, fromAccountId, amount, "", r.outcome)
        /\ UNCHANGED <<revision, inflight, issued, storeVars>>

NextLib == LibLogin \/ LibListAccounts \/ LibListTransactions \/ LibTransfer

SpecLib == InitLib /\ [][NextLib]_vars

----------------------------------------------------------------------------
(* Vocabulary of the properties: the ledger read directly, without the     *)
(* core's own balance methods, and the error taxonomy of the design.       *)

RECURSIVE SumAmounts(_)
SumAmounts(I) ==
    IF I = {}
    THEN 0
    ELSE LET i == CHOOSE j \in I : TRUE
         IN entries[i].amountMinor + SumAmounts(I \ {i})

EntriesOnAccount(accountId) ==
    {i \in 1..Len(entries) : entries[i].accountId = accountId}
EntriesOfTx(txId) == {i \in 1..Len(entries) : entries[i].txId = txId}

LedgerSum(accountId) == SumAmounts(EntriesOnAccount(accountId))
TxSum(txId) == SumAmounts(EntriesOfTx(txId))

AccountIds == {accounts[i].id : i \in 1..Len(accounts)}
AccountById(id) == accounts[CHOOSE i \in 1..Len(accounts) : accounts[i].id = id]
UserAccountIds ==
    {accounts[i].id : i \in {j \in 1..Len(accounts) : accounts[j].userId # SYSTEM}}
TxSet == {transactions[i] : i \in 1..Len(transactions)}
TxIds == {t.id : t \in TxSet}

\* The user a token resolves to (Undefined when it resolves to none).
TokenUserId(token) ==
    LET r == getUserByToken(State, token) IN
    IF r.outcome = Ok THEN r.value.id ELSE Undefined

NotFound == {"Account not found", "From account not found"}
Forbidden == "Forbidden"
InvalidAmount == "Amount must be > 0"
InsufficientFunds == "Insufficient funds"
Unauthorized == "Unauthorized"

Posting == {"postTopup", "transfer"}

\* The acting user of the call c owns the account it names.
OwnsAccount(c) ==
    /\ c.acct \in AccountIds
    /\ AccountById(c.acct).userId =
          (IF c.op = "transfer" THEN TokenUserId(c.who) ELSE c.who)

\* The call c passes authentication and the ownership check.
Admitted(c) ==
    /\ c.op \in Posting
    /\ c.op = "transfer" => TokenUserId(c.who) # Undefined
    /\ OwnsAccount(c)

----------------------------------------------------------------------------
(* C1.  In every reachable state the balance read of the loaded revision   *)
(* (getBalanceMinor / balanceMinor) returns, for every account and every   *)
(* account id an entry names, the sum of amountMinor over the ledger       *)
(* entries on that account.                                                *)
C1_BalanceIsFoldOfEntries ==
    \A id \in AccountIds \cup {entries[i].accountId : i \in 1..Len(entries)} :
        balanceOf(revision, State, id) = LedgerSum(id)

\* Two accounts carry entries, one of them a credit and a debit.
C1_Witness ==
    \E a, b \in AccountIds :
        /\ a # b
        /\ Cardinality(EntriesOnAccount(a)) >= 2
        /\ EntriesOnAccount(b) # {}
        /\ LedgerSum(a) # 0
        /\ LedgerSum(b) # LedgerSum(a)

----------------------------------------------------------------------------
(* C2, for the TRANSFER transactions it names, in part_003 and part_004    *)
(* (the revisions the claim rests on).  In every reachable state the       *)
(* amountMinor of the entries carrying the id of a recorded TRANSFER sum   *)
(* to zero, the clearing leg included.                                     *)
C2_TransferEntriesSumToZero ==
    revision \in {"part_003", "part_004"} =>
        \A t \in TxSet : t.type = "TRANSFER" => TxSum(t.id) = 0

----------------------------------------------------------------------------
(* C4.  In every reachable state the balance of every account owned by a   *)
(* user (not by SYSTEM) is at least 0.                                     *)
C4_UserBalancesNeverNegative ==
    \A a \in UserAccountIds : LedgerSum(a) >= 0

----------------------------------------------------------------------------
(* C5.  A postTopup by the owner of the account, with an amount that is    *)
(* <= 0 in minor units, fails with InvalidAmount and records neither a     *)
(* transaction nor an entry.                                               *)
C5_TopupRejectsNonPositiveAmount ==
    [][LET c == last' IN
       (c.op = "postTopup" /\ Admitted(c) /\ toMinor(c.amount) <= 0)
           => /\ c.outcome = InvalidAmount
              /\ UNCHANGED <<transactions, entries>>]_vars

----------------------------------------------------------------------------
(* C6, in part_003 and part_004.  A transfer by the owner of the source    *)
(* account, with an amount that is <= 0 in minor units, fails with         *)
(* InvalidAmount whatever the balance, and records neither a transaction   *)
(* nor an entry.                                                           *)
C6_TransferRejectsNonPositiveAmount ==
    [][LET c == last' IN
       (/\ revision \in {"part_003", "part_004"}
        /\ c.op = "transfer" /\ Admitted(c) /\ toMinor(c.amount) <= 0)
           => /\ c.outcome = InvalidAmount
              /\ UNCHANGED <<transactions, entries>>]_vars

----------------------------------------------------------------------------
(* C7.  A transfer by the owner of the source account, of a positive       *)
(* amount in minor units: when the balance is below the amount it fails    *)
(* with InsufficientFunds, the balance stays and no transaction and no     *)
(* entry is recorded; otherwise (the whole balance included) it succeeds.  *)
C7_InsufficientFundsIffBalanceBelowAmount ==
    [][LET c == last' IN
       (c.op = "transfer" /\ Admitted(c) /\ toMinor(c.amount) > 0)
           => IF LedgerSum(c.acct) < toMinor(c.amount)
              THEN /\ c.outcome = InsufficientFunds
                   /\ UNCHANGED <<transactions, entries>>
                   /\ \A a \in AccountIds : LedgerSum(a)' = LedgerSum(a)
              ELSE c.outcome = Ok]_vars

\* A transfer was refused for lack of funds on an account that holds some.
C7_Witness ==
    /\ last.op = "transfer"
    /\ last.outcome = InsufficientFunds
    /\ LedgerSum(last.acct) > 0
    /\ LedgerSum(last.acct) < toMinor(last.amount)

----------------------------------------------------------------------------
EntriesExpected(t) ==
    IF t.type = "TRANSFER" /\ revision = "part_003" THEN 2 ELSE 1

NoPartialPosting ==
    /\ \A t \in TxSet : Cardinality(EntriesOfTx(t.id)) = EntriesExpected(t)
    /\ \A i \in 1..Len(entries) : entries[i].txId \in TxIds

(* C8.  A postTopup or transfer that fails leaves entries, transactions    *)
(* and accounts as they were; and in every state every recorded            *)
(* transaction has its entries (one on its own account, and for a          *)
(* TRANSFER of part_003 the clearing leg), and every entry carries the id  *)
(* of a recorded transaction.                                              *)
C8_FailedPostingChangesNothing ==
    [][/\ (last'.op \in Posting /\ last'.outcome # Ok)
            => UNCHANGED <<entries, transactions, accounts>>
       /\ NoPartialPosting']_vars

\* A posting failed on a ledger that already holds a transfer.
C8_Witness ==
    /\ last.op \in Posting
    /\ last.outcome \in {Forbidden, InsufficientFunds}
    /\ \E t \in TxSet : t.type = "TRANSFER"

----------------------------------------------------------------------------
(* C9, in part_003 and part_004.  A transfer with a valid token fails with *)
(* NotFound when fromAccountId names no account, and with Forbidden when   *)
(* the account is owned by someone else.                                   *)
C9_TransferNotFoundOrForbidden ==
    [][LET c == last' IN
       (/\ revision \in {"part_003", "part_004"}
        /\ c.op = "transfer" /\ TokenUserId(c.who) # Undefined)
           => /\ c.acct \notin AccountIds => c.outcome \in NotFound
              /\ (c.acct \in AccountIds /\ ~OwnsAccount(c))
                    => c.outcome = Forbidden]_vars

----------------------------------------------------------------------------
(* C10, in part_003 and part_005.  postTopup fails with NotFound when      *)
(* toAccountId names no account, and with Forbidden when the account is    *)
(* owned by someone other than the acting user.                            *)
C10_TopupNotFoundOrForbidden ==
    [][LET c == last' IN
       (revision \in {"part_003", "part_005"} /\ c.op = "postTopup")
           => /\ c.acct \notin AccountIds => c.outcome \in NotFound
              /\ (c.acct \in AccountIds /\ ~OwnsAccount(c))
                    => c.outcome = Forbidden]_vars

----------------------------------------------------------------------------
BalanceAt(accountId, n) ==
    SumAmounts({i \in 1..n : entries[i].accountId = accountId})

OneCriticalSection(p) ==
    IF p.outcome = Ok
    THEN /\ p.len1 = p.len0 + 2
         /\ BalanceAt(p.from, p.len0) >= toMinor(p.amount)
         /\ entries[p.len0 + 1].accountId = p.from
         /\ entries[p.len0 + 1].amountMinor = 0 - toMinor(p.amount)
         /\ entries[p.len0 + 2].amountMinor = toMinor(p.amount)
         /\ entries[p.len0 + 2].txId = entries[p.len0 + 1].txId
         /\ BalanceAt(p.from, p.len1) = BalanceAt(p.from, p.len0) - toMinor(p.amount)
    ELSE p.len1 = p.len0

ScenarioE(p, q) ==
    /\ p.from = q.from
    /\ TokenUserId(p.token) # Undefined
    /\ TokenUserId(q.token) # Undefined
    /\ p.from \in AccountIds
    /\ AccountById(p.from).userId = TokenUserId(p.token)
    /\ AccountById(q.from).userId = TokenUserId(q.token)
    /\ toMinor(p.amount) = 6000
    /\ toMinor(q.amount) = 6000
    /\ BalanceAt(p.from, p.len0) = 10000
    /\ q.len0 = p.len1

(* C3, under SpecApi.  For every transfer issued through nnexApi whose     *)
(* promise is still pending: if it succeeded, the balance it was checked   *)
(* against is the balance of the ledger as it stood at the call, and its   *)
(* two entries follow that ledger directly (no other posting between the   *)
(* check and the appends); if it failed it appended nothing.  And of two   *)
(* transfers of 6000 issued one after the other against an account that    *)
(* held 10000, with no posting between them, the first succeeds, the       *)
(* second fails with InsufficientFunds, and the balance is then 4000.      *)
C3_ConcurrentTransfersSerialize ==
    /\ \A i \in 1..Len(inflight) : OneCriticalSection(inflight[i])
    /\ \A i \in 1..Len(inflight) : \A j \in 1..Len(inflight) :
          (i < j /\ ScenarioE(inflight[i], inflight[j]))
              => /\ inflight[i].outcome = Ok
                 /\ inflight[j].outcome = InsufficientFunds
                 /\ BalanceAt(inflight[j].from, inflight[j].len1) = 4000

\* Both transfers of scenario E are pending at once.
C3_Witness ==
    /\ Len(inflight) = 2
    /\ ScenarioE(inflight[1], inflight[2])
    /\ LedgerSum(inflight[1].from) = 4000

----------------------------------------------------------------------------
\* The accounts of the reserved owner SYSTEM that are kept in `currency`.
ClearingAccountIds(currency) ==
    {accounts[i].id : i \in {j \in 1..Len(accounts) :
        accounts[j].userId = SYSTEM /\ accounts[j].currency = currency}}

(* C11.  A transfer that succeeds, of m = toMinor(amount) from account A,  *)
(* records exactly one more transaction, a TRANSFER of m from A, and       *)
(* exactly two more entries, both carrying its id: -m on A and then +m on  *)
(* the SYSTEM clearing account of A's currency; the balance of A falls by  *)
(* m, that of the clearing account rises by m, and no other balance moves. *)
C11_TransferPostsDebitAndClearingCredit ==
    [][LET c == last'
           n == Len(entries)
           m == toMinor(c.amount)
       IN
       (c.op = "transfer" /\ c.outcome = Ok)
           => /\ Len(transactions') = Len(transactions) + 1
              /\ TxSet \subseteq TxSet'
              /\ Len(entries') = n + 2
              /\ SubSeq(entries', 1, n) = entries
              /\ \E t \in TxSet' \ TxSet :
                    /\ t.type = "TRANSFER"
                    /\ t.amountMinor = m
                    /\ t.fromAccountId = c.acct
                    /\ entries'[n + 1].txId = t.id
                    /\ entries'[n + 2].txId = t.id
              /\ \E A \in AccountIds, clearing \in AccountIds' :
                    /\ A = c.acct
                    /\ clearing \in ClearingAccountIds(AccountById(A).currency)'
                    /\ entries'[n + 1].accountId = A
                    /\ entries'[n + 1].amountMinor = 0 - m
                    /\ entries'[n + 2].accountId = clearing
                    /\ entries'[n + 2].amountMinor = m
                    /\ LedgerSum(A)' = LedgerSum(A) - m
                    /\ LedgerSum(clearing)' = LedgerSum(clearing) + m
                    /\ \A a \in AccountIds \ {A, clearing} :
                          LedgerSum(a)' = LedgerSum(a)]_vars

----------------------------------------------------------------------------
(* C12.  A postTopup that succeeds, of m = toMinor(amount) into account A, *)
(* records exactly one more transaction, a TOPUP with amountMinor m and    *)
(* toAccountId A, and exactly one more entry, +m on A with that            *)
(* transaction's id; the balance of A rises by m and no other balance      *)
(* moves.  100.00 is 10000 minor units: on a balance of 0 it gives 10000.  *)
C12_TopupPostsOneCredit ==
    [][LET c == last'
           n == Len(entries)
           m == toMinor(c.amount)
       IN
       (c.op = "postTopup" /\ c.outcome = Ok)
           => /\ Len(transactions') = Len(transactions) + 1
              /\ TxSet \subseteq TxSet'
              /\ Len(entries') = n + 1
              /\ SubSeq(entries', 1, n) = entries
              /\ \E t \in TxSet' \ TxSet :
                    /\ t.type = "TOPUP"
                    /\ t.amountMinor = m
                    /\ t.toAccountId = c.acct
                    /\ entries'[n + 1].txId = t.id
              /\ c.amount = Major(100) => m = 10000
              /\ \E A \in AccountIds \cup {NoSuchId} :
                    /\ A = c.acct
                    /\ entries'[n + 1].accountId = A
                    /\ entries'[n + 1].amountMinor = m
                    /\ LedgerSum(A)' = LedgerSum(A) + m
                    /\ (c.amount = Major(100) /\ LedgerSum(A) = 0)
                          => LedgerSum(A)' = 10000
                    /\ \A a \in (AccountIds \cup {NoSuchId}) \ {A} :
                          LedgerSum(a)' = LedgerSum(a)]_vars

\* A top-up of 100.00 has just landed on an account that held nothing.
C12_Witness ==
    /\ last.op = "postTopup"
    /\ last.outcome = Ok
    /\ last.amount = Major(100)
    /\ Cardinality(EntriesOnAccount(last.acct)) = 1
    /\ LedgerSum(last.acct) = 10000

----------------------------------------------------------------------------
\* Resolving twice gives the same account and the second call adds nothing.
ResolvesOnce(currency) ==
    LET first == getOrCreateClearingAccount(State, currency)
        second == getOrCreateClearingAccount(first.s, currency)
    IN /\ second.id = first.id
       /\ second.s = first.s
       /\ ClearingAccountIds(currency) # {}
             => /\ first.id \in ClearingAccountIds(currency)
                /\ first.s = State

(* C13.  In every state there is at most one account owned by SYSTEM per  *)
(* currency, resolving the clearing account of a currency twice returns    *)
(* the same id (the existing account's, when there is one) and SYSTEM is   *)
(* the id of no user; a clearing account, once there, stays; and one       *)
(* appears only in a step that is a successful transfer from an account of *)
(* that currency, when no TRANSFER of that currency was recorded before.   *)
C13_ClearingAccountResolvedOnce ==
    /\ [](\A currency \in Currencies :
            /\ Cardinality(ClearingAccountIds(currency)) <= 1
            /\ ResolvesOnce(currency)
            /\ \A i \in 1..Len(users) : users[i].id # SYSTEM)
    /\ [][\A currency \in Currencies :
            /\ ClearingAccountIds(currency) \subseteq ClearingAccountIds(currency)'
            /\ ClearingAccountIds(currency)' # ClearingAccountIds(currency)
                  => /\ last'.op = "transfer"
                     /\ last'.outcome = Ok
                     /\ \E A \in AccountIds :
                           A = last'.acct /\ AccountById(A).currency = currency
                     /\ ~\E t \in TxSet :
                           t.type = "TRANSFER" /\ t.currency = currency]_vars

\* The second transfer of a currency has found the clearing account of the
\* first: it carries two entries.
C13_Witness ==
    /\ last.op = "transfer"
    /\ last.outcome = Ok
    /\ \E currency \in Currencies : \E a \in ClearingAccountIds(currency) :
          Cardinality(EntriesOnAccount(a)) = 2

----------------------------------------------------------------------------
(* C14, under SpecGate.  In every step of every operation the entries of   *)
(* the next state begin with the entries of this state, unchanged and in   *)
(* the same order, and every transaction recorded in this state is         *)
(* recorded in the next with the same fields.                              *)
C14_LedgerIsAppendOnly ==
    [][/\ Len(entries') >= Len(entries)
       /\ SubSeq(entries', 1, Len(entries)) = entries
       /\ Len(transactions') >= Len(transactions)
       /\ \A t \in TxSet : t \in TxSet']_vars

\* part_004, which puts a new transaction in front of the others, holds
\* three of them and a transfer has just posted.
C14_Witness ==
    /\ revision = "part_004"
    /\ Len(transactions) = 3
    /\ Len(entries) = 3
    /\ last.op = "transfer"
    /\ last.outcome = Ok

----------------------------------------------------------------------------
TokenOps ==
    {"me", "listAccounts", "listTransactions", "transfer", "submitKyc",
     "approveKycForDemo"}

\* Everything a caller may present as a token: every id handed out so far
\* or in this step, SYSTEM, and values that are no id.
Presentable == (0..nextId) \cup {Undefined, NoSuchId}

(* C15, under SpecGate.  In every state a token resolves to a user if and  *)
(* only if a login that succeeded has returned it, and then to the user    *)
(* that login returned.  A call of me, listAccounts, listTransactions,     *)
(* transfer, submitKyc or approveKycForDemo with a token that does not     *)
(* resolve fails with Unauthorized and changes nothing of the core; with a *)
(* token that resolves it does not fail with Unauthorized.                 *)
C15_TokenResolvesIffIssuedByLogin ==
    /\ [](\A token \in Presentable :
            /\ TokenUserId(token) # Undefined
                  <=> \E l \in issued : l.token = token
            /\ \A l \in issued : l.token = token => TokenUserId(token) = l.userId)
    /\ [][LET c == last' IN
          /\ (c.op \in TokenOps /\ TokenUserId(c.who) = Undefined)
                => /\ c.outcome = Unauthorized
                   /\ UNCHANGED coreVars
          /\ (c.op \in TokenOps /\ TokenUserId(c.who) # Undefined)
                => c.outcome # Unauthorized]_vars

\* A user is logged in and submitKyc was called with a token of no session.
C15_Witness ==
    /\ last.op = "submitKyc"
    /\ last.outcome = Unauthorized
    /\ \E token \in Presentable : TokenUserId(token) # Undefined

----------------------------------------------------------------------------
(* C17.  A login with an email that differs from the email of a registered *)
(* user at most in the case of its letters succeeds and returns a token    *)
(* for that user.                                                          *)
C17_LoginIgnoresCaseOfEmail ==
    [][LET c == last' IN
       \A i \in 1..Len(users) :
          (/\ c.op = "login"
           /\ toLowerCase(c.email) = toLowerCase(users[i].email)
           /\ ~HasSession(users[i].id))
              => /\ c.outcome = Ok
                 /\ \E l \in issued' \ issued : l.userId = users[i].id]_vars

----------------------------------------------------------------------------
UserNotFound ==
    {"User not found", "User not found. Use founder@nnex.bank for demo."}

\* The user the store holds, as a caller's getState() would see it.
StoredUser == getState(World).state.user

\* The emails of the users that exist: those of the core, or the store's.
RegisteredEmails ==
    IF revision = "_store.ts"
    THEN IF StoredUser = NoUser THEN {} ELSE {StoredUser.email}
    ELSE {users[i].email : i \in 1..Len(users)}

(* C16, under SpecStore.  A login (login of the cores, loginByEmail of the *)
(* store) with an email that is the email of no existing user, whatever    *)
(* the case of the letters, fails with NotFound, and the users, the stored *)
(* user and the sessions are afterwards what they were: no user is         *)
(* created by a login.                                                     *)
C16_LoginNeverProvisions ==
    [][LET c == last' IN
       (/\ c.op \in {"login", "loginByEmail"}
        /\ \A e \in RegisteredEmails : toLowerCase(e) # toLowerCase(c.email))
           => /\ c.outcome \in UserNotFound
              /\ UNCHANGED <<users, sessions>>
              /\ StoredUser' = StoredUser]_vars

----------------------------------------------------------------------------
\* The ids of the accounts a user owns.
AccountsOwnedBy(userId) ==
    {accounts[i].id : i \in {k \in 1..Len(accounts) : accounts[k].userId = userId}}

(* C18, under SpecLib.  What listTransactions returns to a user holds      *)
(* only transactions whose source or destination account is an account    *)
(* that user owns: a transaction that names none of the user's accounts    *)
(* is never listed for the user.  In lib/nnexCore.ts the listing takes no  *)
(* user and every user is handed the same list.                            *)
C18_ListingShowsOnlyOwnTransactions ==
    IF revision = "lib/nnexCore.ts"
    THEN \A i \in 1..Len(users) :
            LET listed == listTransactionsLib(State).value
                own == AccountsOwnedBy(users[i].id)
            IN \A k \in 1..Len(listed) :
                  listed[k].from \in own \/ listed[k].to \in own
    ELSE \A token \in TokenInputs, limit \in LimitInputs :
            \A r \in listTransactions(revision, State, token, limit) :
               r.outcome = Ok =>
                  LET own == AccountsOwnedBy(TokenUserId(token)) IN
                  \A k \in 1..Len(r.value) :
                     \/ r.value[k].fromAccountId \in own
                     \/ r.value[k].toAccountId \in own

----------------------------------------------------------------------------
\* The limits a caller can pass: part_004 and part_005 take none, and the
\* caller is then owed the default.
LimitsOf(rev) == IF rev = "part_003" THEN LimitInputs ELSE {DefaultLimit}

(* C19, under SpecGate.  A listing of a user's transactions is newest      *)
(* first: of two listed transactions the one posted later (the one with    *)
(* the larger id) comes first, also when both carry the same createdAt;    *)
(* and the listing holds at most `limit` transactions, 50 when the caller  *)
(* gives no limit.                                                         *)
C19_ListingIsNewestFirstAndCapped ==
    \A token \in TokenInputs, limit \in LimitsOf(revision) :
       \A r \in listTransactions(revision, State, token, limit) :
          r.outcome = Ok =>
             /\ Len(r.value) <= limit
             /\ \A j, k \in 1..Len(r.value) :
                   j < k => r.value[j].id > r.value[k].id

----------------------------------------------------------------------------
\* The place of a status on the path NOT_STARTED -> PENDING -> APPROVED.
KycRank(status) ==
    CASE status = "NOT_STARTED" -> 0
      [] status = "PENDING" -> 1
      [] status = "APPROVED" -> 2

(* C20, under SpecGate.  A user's kycStatus only moves forward along       *)
(* NOT_STARTED -> PENDING -> APPROVED: no step of the core, whatever the   *)
(* calls of submitKyc and approveKycForDemo, takes a user from APPROVED    *)
(* back to PENDING or NOT_STARTED, or from PENDING back to NOT_STARTED.    *)
C20_KycStatusNeverRegresses ==
    [][\A i \in 1..Len(users) :
          \A j \in 1..Len(users') :
             users'[j].id = users[i].id
                => KycRank(users'[j].kycStatus) >= KycRank(users[i].kycStatus)]_vars

----------------------------------------------------------------------------
----------------------------------------------------------------------------
\* What a successful submitKyc(token, fullName) does to the users when the
\* caller's record gets the name `name`.
SubmittedAs(token, name) ==
    \E i \in 1..Len(users) :
       /\ users[i].id = TokenUserId(token)
       /\ users' = [users EXCEPT ![i] = [@ EXCEPT !.kycStatus = "PENDING",
                                                  !.name = name]]

CallerName(token) ==
    LET i == CHOOSE i \in 1..Len(users) : users[i].id = TokenUserId(token)
    IN users[i].name

(* C22, as claimed.  A submitKyc with a valid token sets the caller's      *)
(* kycStatus to PENDING and the caller's name to the submitted fullName,   *)
(* whatever the fullName, the empty string included, and changes nothing   *)
(* else: not the accounts, the entries, the transactions, the sessions or  *)
(* another user.                                                           *)
C22_SubmitKycSetsStatusAndName ==
    [][LET c == last' IN
       (c.op = "submitKyc" /\ c.outcome = Ok)
          => /\ SubmittedAs(c.who, c.fullName)
             /\ UNCHANGED <<accounts, entries, transactions, sessions>>]_vars

(* C22, amended.  A submitKyc with a valid token sets the caller's         *)
(* kycStatus to PENDING, sets the caller's name to the submitted fullName  *)
(* when that is not empty and keeps the name when it is, and changes       *)
(* nothing else.                                                           *)
C22_SubmitKycKeepsNameOnEmpty ==
    [][LET c == last' IN
       (c.op = "submitKyc" /\ c.outcome = Ok)
          => /\ SubmittedAs(c.who, IF c.fullName = "" THEN CallerName(c.who)
                                                      ELSE c.fullName)
             /\ UNCHANGED <<accounts, entries, transactions, sessions>>]_vars

\* An empty fullName has just been submitted by a user who had been renamed.
C22_Witness ==
    /\ last.op = "submitKyc"
    /\ last.outcome = Ok
    /\ last.fullName = ""
    /\ CallerName(last.who) = "Ada Lovelace"

----------------------------------------------------------------------------
\* The core state `s` with the kycStatus of the user `userId` set to `k`.
WithKyc(s, userId, k) ==
    [s EXCEPT !.users = [i \in 1..Len(s.users) |->
                            IF s.users[i].id = userId
                            THEN [s.users[i] EXCEPT !.kycStatus = k]
                            ELSE s.users[i]]]

\* The ledger a call leaves behind: the accounts, the transactions and the
\* entries, from which every balance is computed.
LedgerOf(s) ==
    [accounts |-> s.accounts, transactions |-> s.transactions,
     entries |-> s.entries]

\* The kycStatus of the user `userId` in the core state `s`, as a set.
KycOf(s, userId) ==
    {s.users[i].kycStatus : i \in {j \in 1..Len(s.users) : s.users[j].id = userId}}

(* C23, under SpecGate.  Transfers are not gated on KYC: for every caller  *)
(* with a session, from the state reached and from the state that differs  *)
(* from it only in that caller's kycStatus (APPROVED for PENDING, PENDING   *)
(* for APPROVED), the same transfer call has the same outcome (the same     *)
(* success or the same error) and leaves the same accounts, transactions    *)
(* and entries, hence the same balances.                                    *)
C23_TransferIgnoresKycStatus ==
    \A token \in IssuedTokens :
      \A k \in {"PENDING", "APPROVED"} \ KycOf(State, TokenUserId(token)) :
        LET there == WithKyc(State, TokenUserId(token), k) IN
        \A fromAccountId \in AccountIdInputs, amount \in AmountInputs :
            LET a == transfer(revision, State, token, fromAccountId, amount)
                b == transfer(revision, there, token, fromAccountId, amount)
            IN /\ a.outcome = b.outcome
               /\ LedgerOf(a.s) = LedgerOf(b.s)

\* An approved user has just transferred; the same user, pending, can too.
C23_Witness ==
    /\ last.op = "transfer"
    /\ last.outcome = Ok
    /\ \E i \in 1..Len(users) :
          /\ users[i].id = TokenUserId(last.who)
          /\ users[i].kycStatus = "APPROVED"
    /\ \E fromAccountId \in AccountIdInputs, amount \in AmountInputs :
          transfer(revision, WithKyc(State, TokenUserId(last.who), "PENDING"),
                   last.who, fromAccountId, amount).outcome = Ok

----------------------------------------------------------------------------
ReadOps == {"listAccounts", "getBalanceMinor", "listTransactions"}

\* The balance of every account in the core state `s`.
Balances(s) ==
    [accountId \in AccountIdInputs |-> balanceOf(revision, s, accountId)]

(* C24, under SpecGate.  The reads listAccounts, getBalanceMinor and       *)
(* listTransactions have no side effect: a step that is one of them        *)
(* leaves users, accounts, sessions, transactions and entries as they      *)
(* were; and the state a read returns in is the state it was called in,    *)
(* so that the same read, repeated there, answers what it answered before. *)
C24_ReadsAreIdempotent ==
    /\ [](\A token \in TokenInputs :
            /\ LET r == listAccounts(State, token) IN
               /\ r.s = State
               /\ listAccounts(r.s, token) = r
               /\ Balances(r.s) = Balances(State)
            /\ \A limit \in LimitInputs :
                  \A r \in listTransactions(revision, State, token, limit) :
                     /\ r.s = State
                     /\ listTransactions(revision, r.s, token, limit)
                           = listTransactions(revision, State, token, limit))
    /\ [][last'.op \in ReadOps
             => UNCHANGED <<users, accounts, sessions, transactions, entries>>]_vars

\* A user with several transactions has just listed them.
C24_Witness ==
    /\ last.op = "listTransactions"
    /\ last.outcome = Ok
    /\ \E r \in listTransactions(revision, State, last.who, DefaultLimit) :
          Len(r.value) >= 2

----------------------------------------------------------------------------
TxOf(txId) == CHOOSE t \in TxSet : t.id = txId

(* C25, under Spec.  Currency is consistent: the currency of every         *)
(* recorded transaction is the currency of the account its fromAccountId   *)
(* or toAccountId names, and every entry is posted against an account of   *)
(* the currency of its transaction, so that the two entries of a transfer  *)
(* are on accounts of one currency.                                        *)
C25_CurrencyIsConsistent ==
    /\ \A t \in TxSet :
          \A id \in {t.fromAccountId, t.toAccountId} \cap AccountIds :
             AccountById(id).currency = t.currency
    /\ \A i \in 1..Len(entries) :
          (entries[i].accountId \in AccountIds /\ entries[i].txId \in TxIds)
             => AccountById(entries[i].accountId).currency
                   = TxOf(entries[i].txId).currency

----------------------------------------------------------------------------
(* C26, under SpecNumbers.  A transfer of part_003 that passes             *)
(* authentication and the ownership check with an amount that is not       *)
(* finite (NaN, Infinity, -Infinity) fails with InvalidAmount and records  *)
(* neither a transaction nor an entry.                                     *)
C26_NonFiniteAmountIsRejected ==
    [][LET c == last' IN
       (/\ revision = "part_003"
        /\ c.op = "transfer" /\ Admitted(c) /\ ~IsFinite(c.amount))
           => /\ c.outcome = InvalidAmount
              /\ UNCHANGED <<transactions, entries>>]_vars

----------------------------------------------------------------------------
\* The place of the account `id` in the accounts, which are kept in the
\* order of their creation.
CreatedAs(id) == CHOOSE i \in 1..Len(accounts) : accounts[i].id = id

(* C27, under SpecGate.  listAccounts with a user's token returns exactly  *)
(* the accounts that user owns, each once and in the order of their        *)
(* creation; an account of SYSTEM, the clearing account a transfer         *)
(* creates, is in no user's listing.                                       *)
C27_ListAccountsShowsOwnAccountsInOrder ==
    \A token \in TokenInputs :
        LET r == listAccounts(State, token) IN
        r.outcome = Ok =>
           /\ {r.value[k].id : k \in 1..Len(r.value)}
                 = AccountsOwnedBy(TokenUserId(token))
           /\ \A k \in 1..Len(r.value) :
                 /\ r.value[k] = accounts[CreatedAs(r.value[k].id)]
                 /\ r.value[k].userId # SYSTEM
           /\ \A j, k \in 1..Len(r.value) :
                 j < k => CreatedAs(r.value[j].id) < CreatedAs(r.value[k].id)

\* The user has just listed the accounts while a clearing account exists.
C27_Witness ==
    /\ last.op = "listAccounts"
    /\ last.outcome = Ok
    /\ Len(listAccounts(State, last.who).value) >= 2
    /\ \E i \in 1..Len(accounts) : accounts[i].userId = SYSTEM

----------------------------------------------------------------------------
\* The balance of the account `id` in the component state `s`.
AppBalance(s, id) ==
    LET i == CHOOSE i \in 1..Len(s.accounts) : s.accounts[i].id = id
    IN s.accounts[i].balance

\* What the sends queued since the last render debit from the account `id`.
RECURSIVE PendingDebit(_, _)
PendingDebit(queue, id) ==
    IF queue = <<>> THEN 0
    ELSE (IF Head(queue).kind = "updater" /\ Head(queue).accId = id
          THEN Head(queue).value ELSE 0)
         + PendingDebit(Tail(queue), id)

(* C28, under SpecApp.  Whatever send is invoked between two renders, the  *)
(* sends queued since the last render debit from an account no more than   *)
(* the balance that was rendered, and no account's balance in the          *)
(* component's state, or in the state the queue will produce, is negative. *)
C28_SendsNeverOverdraw ==
    \A id \in {"usd", "eur"} :
        /\ PendingDebit(app.queue, id) <= AppBalance(app.rendered, id)
        /\ AppBalance(app.state, id) >= 0
        /\ AppBalance(applyQueue(app.state, app.queue), id) >= 0

----------------------------------------------------------------------------
\* What seedIfEmpty writes.
Seeded == seedIfEmpty([ls |-> NoItem, nextId |-> 1]).state

SeededBalance(currency) ==
    LET i == CHOOSE i \in 1..Len(Seeded.accounts) :
                Seeded.accounts[i].currency = currency
    IN Seeded.accounts[i].balance

\* The sum of the amounts of the transfer txs of `txs` in `currency`.
RECURSIVE TransferredIn(_, _)
TransferredIn(txs, currency) ==
    IF txs = <<>> THEN 0
    ELSE (IF Head(txs).type = "transfer" /\ Head(txs).currency = currency
          THEN Head(txs).amount ELSE 0)
         + TransferredIn(Tail(txs), currency)

(* C29, under SpecStore.  In every state of the store that its exported    *)
(* functions reach, the stored balance of each account is its seeded       *)
(* balance less the amounts of the recorded transfer txs in the account's  *)
(* currency.                                                               *)
C29_StoredBalanceFollowsTransfers ==
    \A i \in 1..Len(Stored.accounts) :
        Stored.accounts[i].balance
           = SeededBalance(Stored.accounts[i].currency)
                - TransferredIn(Stored.txs, Stored.accounts[i].currency)

----------------------------------------------------------------------------
\* The first account of `currency` in the stored state, 0 if there is none.
FirstOf(currency) ==
    IF \E i \in 1..Len(Stored.accounts) : Stored.accounts[i].currency = currency
    THEN CHOOSE i \in 1..Len(Stored.accounts) :
            /\ Stored.accounts[i].currency = currency
            /\ \A j \in 1..(i - 1) : Stored.accounts[j].currency # currency
    ELSE 0

\* The first of the four errors that applies to the call, "" if none does.
FirstError(beneficiaryId, amount, currency) ==
    IF amount \in {NaN, Infinity, NegInfinity} \/ amount <= 0
    THEN "Invalid amount"
    ELSE IF FirstOf(currency) = 0 THEN "Account not found"
    ELSE IF Stored.accounts[FirstOf(currency)].balance < amount
    THEN "Insufficient funds"
    ELSE IF \A i \in 1..Len(Stored.beneficiaries) :
               Stored.beneficiaries[i].id # beneficiaryId
    THEN "Beneficiary not found"
    ELSE ""

\* What sendTransfer does when the debit it books for `amount` is `debit`
\* and the amount it records is `recorded`: the answer, and the stored
\* state after the call against the stored state before it.
SendsAs(beneficiaryId, amount, currency, debit, recorded) ==
    LET r == sendTransfer(World, beneficiaryId, amount, currency)
        before == Stored
        after == getState(r.w).state
        a == FirstOf(currency)
    IN
    IF FirstError(beneficiaryId, amount, currency) # ""
    THEN /\ ~r.ok
         /\ r.error = FirstError(beneficiaryId, amount, currency)
         /\ after = before
    ELSE /\ r.ok
         /\ after.accounts =
               [before.accounts EXCEPT ![a].balance = @ - debit]
         /\ after.accounts[a].balance >= 0
         /\ Len(after.txs) = Len(before.txs) + 1
         /\ Tail(after.txs) = before.txs
         /\ Head(after.txs).status = "success"
         /\ Head(after.txs).amount = recorded
         /\ Head(after.txs).currency = currency
         /\ after.beneficiaries = before.beneficiaries
         /\ after.templates = before.templates
         /\ after.user = before.user

(* C30.  sendTransfer checks in the order Invalid amount,                  *)
(* Account not found, Insufficient funds, Beneficiary not found; it        *)
(* answers {ok: false} with the first error that applies and leaves the    *)
(* stored state as it was.  Otherwise it debits the first account of the   *)
(* currency by exactly the amount, the balance staying >= 0, prepends      *)
(* exactly one tx with status success, and changes no other account, no    *)
(* beneficiary and no template.                                            *)
C30_SendTransferDebitsTheAmount ==
    \A beneficiaryId \in BeneficiaryIdInputs, amount \in StoreAmountInputs,
       currency \in StoreCurrencies :
        SendsAs(beneficiaryId, amount, currency, amount, amount)

(* What the code does instead: the same, but the debit and the recorded    *)
(* amount are rounded to two decimals, so an amount below half a hundredth *)
(* passes the checks, debits nothing and is recorded as a transfer of 0.   *)
SendTransferDebitsTheRoundedAmount ==
    \A beneficiaryId \in BeneficiaryIdInputs, amount \in StoreAmountInputs,
       currency \in StoreCurrencies :
        LET a == FirstOf(currency)
            debit == IF a = 0 \/ ~IsFinite(amount) THEN 0
                     ELSE Stored.accounts[a].balance
                             - toFixed2(Stored.accounts[a].balance - amount)
        IN SendsAs(beneficiaryId, amount, currency, debit, toFixed2(amount))

----------------------------------------------------------------------------
\* Every send queued since the last render was made with a beneficiary
\* selected and an amount v with 0 < v <= the balance of the active account.
QueuedSendsAreValid ==
    \A i \in 1..Len(app.queue) :
        app.queue[i].kind = "updater" =>
            LET state == app.rendered
                value == app.queue[i].value
            IN /\ \E j \in 1..Len(state.beneficiaries) :
                     state.beneficiaries[j].id = state.selectedBeneficiary
               /\ value = Number(state.amount)
               /\ value > 0
               /\ value <= AppBalance(state, state.activeAccount)

\* A click on Send, and the render that applies what it queued, raise no
\* account's balance.
NoBalanceGrows ==
    last'.op \in {"send", "render"} =>
        \A id \in {"usd", "eur"} :
            AppBalance(app'.state, id) <= AppBalance(app.state, id)

(* C31, under SpecApp.  send changes the state only when a beneficiary is  *)
(* selected and the entered amount v satisfies 0 < v <= the balance of the *)
(* active account; for every other input, a negative amount included, it   *)
(* is a no-op, so that send never raises the balance of any account.       *)
C31_SendActsOnlyOnValidInput ==
    /\ [](QueuedSendsAreValid)
    /\ [][NoBalanceGrows]_vars

----------------------------------------------------------------------------
RECURSIVE SumOfTransactions(_)
SumOfTransactions(T) ==
    IF T = {} THEN 0
    ELSE LET t == CHOOSE x \in T : TRUE
         IN t.amountMinor + SumOfTransactions(T \ {t})

\* The sum of amountMinor over all entries, of all accounts.
TotalOfEntries == SumAmounts(1..Len(entries))

\* The sum of amountMinor over the TOPUP transactions.
TotalOfTopups == SumOfTransactions({t \in TxSet : t.type = "TOPUP"})

(* C32, under Spec.  Money is conserved by transfers: in every reachable   *)
(* state the sum of amountMinor over all ledger entries, of user accounts  *)
(* and clearing accounts together, is the sum of amountMinor of the TOPUP  *)
(* transactions; and a transfer call never changes that total.             *)
C32_TransfersConserveMoney ==
    /\ [](TotalOfEntries = TotalOfTopups)
    /\ [][last'.op = "transfer" => TotalOfEntries' = TotalOfEntries]_vars

----------------------------------------------------------------------------
\* The accounts of the SYSTEM owner.
ClearingIds ==
    {accounts[i].id : i \in {j \in 1..Len(accounts) : accounts[j].userId = SYSTEM}}

\* The sum of amountMinor over the TRANSFER transactions in `currency`.
TransfersIn(currency) ==
    SumOfTransactions({t \in TxSet : t.type = "TRANSFER" /\ t.currency = currency})

(* C33, under Spec.  A clearing account is never debited: with no token    *)
(* does transfer accept a SYSTEM-owned account as its source, every entry  *)
(* on a clearing account is positive, and in every reachable state the     *)
(* balance of the clearing account of a currency is the sum of amountMinor *)
(* of the TRANSFER transactions in that currency.                          *)
C33_ClearingAccountIsNeverDebited ==
    /\ \A token \in TokenInputs, id \in ClearingIds, amount \in AmountInputs :
          transfer(revision, State, token, id, amount).outcome # Ok
    /\ \A i \in 1..Len(entries) :
          entries[i].accountId \in ClearingIds => entries[i].amountMinor > 0
    /\ \A id \in ClearingIds :
          LedgerSum(id) = TransfersIn(AccountById(id).currency)

----------------------------------------------------------------------------
Abs(n) == IF n < 0 THEN 0 - n ELSE n

(* C34, under Spec, for part_003.  Entries and transactions correspond:    *)
(* in every reachable state the txId of every entry is the id of a         *)
(* recorded transaction, every TOPUP transaction has exactly one entry and *)
(* every TRANSFER transaction exactly two, and the absolute value of an    *)
(* entry's amountMinor is the amountMinor of its transaction.              *)
C34_EntriesMatchTransactions ==
    revision = "part_003" =>
        /\ \A i \in 1..Len(entries) :
              \E t \in TxSet :
                  /\ t.id = entries[i].txId
                  /\ Abs(entries[i].amountMinor) = t.amountMinor
        /\ \A t \in TxSet :
              Cardinality(EntriesOfTx(t.id)) = IF t.type = "TOPUP" THEN 1 ELSE 2

----------------------------------------------------------------------------
\* The ids of the stored beneficiaries.
BeneficiaryIds ==
    {Stored.beneficiaries[i].id : i \in 1..Len(Stored.beneficiaries)}

(* C35, under SpecStore.  In every state the store's functions reach,      *)
(* every template's beneficiaryId is the id of a stored beneficiary, so    *)
(* that runTemplate on a stored template never fails with Beneficiary not  *)
(* found.                                                                  *)
C35_TemplatesReferToBeneficiaries ==
    /\ \A i \in 1..Len(Stored.templates) :
          Stored.templates[i].beneficiaryId \in BeneficiaryIds
    /\ \A i \in 1..Len(Stored.templates) :
          LET r == runTemplate(World, Stored.templates[i].id)
          IN r.ok \/ r.error # "Beneficiary not found"

----------------------------------------------------------------------------
\* The stored state `s` without its user.
RestOf(s) ==
    [accounts |-> s.accounts, txs |-> s.txs,
     beneficiaries |-> s.beneficiaries, templates |-> s.templates]

(* C36, under SpecStore.  loginByEmail and logout change only the user of  *)
(* the stored state: in every reachable state and for every email, the     *)
(* accounts with their balances, the txs, the beneficiaries and the        *)
(* templates read after the call are those read before it, also when       *)
(* loginByEmail replaces the stored user by a new one; the user read after *)
(* loginByEmail is the user it returns, with the email given up to case,   *)
(* and after logout there is none.                                         *)
C36_LoginAndLogoutChangeOnlyTheUser ==
    /\ \A email \in EmailInputs :
          LET r == loginByEmail(World, email)
              after == getState(r.w).state
          IN /\ RestOf(after) = RestOf(Stored)
             /\ after.user = r.user
             /\ toLowerCase(r.user.email) = toLowerCase(email)
    /\ LET after == getState(logout(World)).state
       IN /\ RestOf(after) = RestOf(Stored)
          /\ after.user = NoUser

\* loginByEmail has just replaced the stored user by a new one, and an
\* account still carries the balance that updateAccountBalance gave it.
C36_Witness ==
    /\ last.op = "loginByEmail"
    /\ Stored.user.email = "guest@nnex.bank"
    /\ \E i \in 1..Len(Stored.accounts) : Stored.accounts[i].balance = Major(50)

----------------------------------------------------------------------------
\* The core state `s` is what the first bootstrap leaves: one user, that
\* user's USD and EUR accounts, and one TOPUP of 500000 on the USD account.
Bootstrapped(s) ==
    /\ Len(s.users) = 1
    /\ s.sessions = <<>>
    /\ Len(s.accounts) = 2
    /\ \A i \in 1..2 : s.accounts[i].userId = s.users[1].id
    /\ s.accounts[1].currency = "USD"
    /\ s.accounts[2].currency = "EUR"
    /\ Len(s.transactions) = 1
    /\ s.transactions[1].type = "TOPUP"
    /\ s.transactions[1].amountMinor = 500000
    /\ s.transactions[1].toAccountId = s.accounts[1].id
    /\ Len(s.entries) = 1
    /\ s.entries[1].accountId = s.accounts[1].id
    /\ s.entries[1].amountMinor = 500000
    /\ s.entries[1].txId = s.transactions[1].id
    /\ balanceOf(revision, s, s.accounts[1].id) = 500000
    /\ balanceOf(revision, s, s.accounts[2].id) = 0

\* The core as its constructor leaves it.
Constructed ==
    /\ users = <<>> /\ accounts = <<>> /\ sessions = <<>>
    /\ transactions = <<>> /\ entries = <<>>

(* C37, under Spec.  bootstrap is idempotent: called on the core as        *)
(* constructed it leaves exactly one user, that user's USD and EUR         *)
(* accounts and one TOPUP of 500000 minor units on the USD account (USD    *)
(* balance 500000, EUR balance 0); called in any state that holds a user   *)
(* it changes nothing, and so does a second call right after the first.    *)
C37_BootstrapIsIdempotent ==
    LET once == bootstrap(revision, State) IN
    /\ Constructed => Bootstrapped(once)
    /\ users # <<>> => once = State
    /\ bootstrap(revision, once) = once

\* bootstrap has been called again, after a transfer or a top-up was posted.
C37_Witness ==
    /\ last.op = "bootstrap"
    /\ Len(users) = 1
    /\ Len(transactions) >= 2

====
